---- MODULE Spec2Model ----
(***************************************************************************)
(* State-machine model of the NC ABC spirits inventory pipeline scripts:   *)
(*   scrape_item_details.py   (item-detail scraper, asyncio.gather)        *)
(*   replace_missing_urls.py  (image search, asyncio.gather + tenacity)    *)
(*   replace_x_image_urls.py  (re-scrape of x-raw-image rows, while loop)  *)
(*   scrape_pricing_site.py   (price-list parser convert_abc_list_to_df)   *)
(*   abc_liquor_board_pipeline_dag.py  (the four tasks of the DAG)         *)
(* The extractor (scrape_item_details on one document), the retry          *)
(* decorators (one attempt and the decision after it), the code~value      *)
(* strings of the image search, the price-list parser and a run of the     *)
(* DAG are specified on their own, each over its own set of inputs.        *)
(*                                                                         *)
(* Text values are modelled as sequences of text fragments: "" is <<>>,    *)
(* concatenation is \o, and a substring test is a test for a contiguous    *)
(* sub-sequence of fragments.                                              *)
(***************************************************************************)
EXTENDS Integers, Sequences, FiniteSets, TLC

\* Largest number of rows the upstream query returns in one run.
MaxRecords == 2

-----------------------------------------------------------------------------
(* Text helpers                                                            *)

Min(a, b) == IF a < b THEN a ELSE b

\* s[:n] and s[n:] of Python, which never fail on short strings.
Take(s, n) == SubSeq(s, 1, Min(n, Len(s)))
Drop(s, n) == SubSeq(s, Min(n, Len(s)) + 1, Len(s))

\* Python's `pat in s`.
Contains(s, pat) ==
    \E k \in 0..(Len(s) - Len(pat)) : SubSeq(s, k + 1, k + Len(pat)) = pat

\* Python's s.strip() for the whitespace fragment " ".
RECURSIVE LStrip(_)
LStrip(s) == IF s # <<>> /\ Head(s) = " " THEN LStrip(Tail(s)) ELSE s
RECURSIVE RStrip(_)
RStrip(s) ==
    IF s # <<>> /\ s[Len(s)] = " " THEN RStrip(SubSeq(s, 1, Len(s) - 1)) ELSE s
Strip(s) == RStrip(LStrip(s))

\* Python's s.split(sep) for a one-fragment separator: the list of segments.
RECURSIVE SplitFrom(_, _, _)
SplitFrom(s, sep, cur) ==
    IF s = <<>> THEN <<cur>>
    ELSE IF Head(s) = sep THEN <<cur>> \o SplitFrom(Tail(s), sep, <<>>)
    ELSE SplitFrom(Tail(s), sep, Append(cur, Head(s)))
Split(s, sep) == SplitFrom(s, sep, <<>>)

-----------------------------------------------------------------------------
(* The three scripts and their retry decorators                            *)

ScrapeItemDetails == "scrape_item_details.py"
ReplaceMissingUrls == "replace_missing_urls.py"
ReplaceXImageUrls == "replace_x_image_urls.py"
Scripts == {ScrapeItemDetails, ReplaceMissingUrls, ReplaceXImageUrls}

\* stop_after_attempt(3) on scrape_item_details.
ItemDetailMaxAttempts == 3
\* stop_after_attempt(30) on google_custom_image_search.
ImageSearchMaxAttempts == 30

MaxAttempts(scr) ==
    IF scr = ReplaceMissingUrls THEN ImageSearchMaxAttempts
    ELSE ItemDetailMaxAttempts

\* A variant in which every script awaits its fetches one after the other.
SequentialAlways(scr) == TRUE

\* process_urls of replace_x_image_urls.py awaits each fetch inside a for
\* loop; the other two hand every coroutine to asyncio.gather.
Sequential(scr) == scr = ReplaceXImageUrls

-----------------------------------------------------------------------------
(* Rows, locators and what the remote sources can answer                   *)

Digit == <<"1", "2", "3", "4", "5">>

\* The NC Code text of record r as the item page shows it, e.g. "NC1".
RawCode(r) == <<"N", "C", Digit[r]>>

\* A variant that leaves a value shorter than two characters as it is.
FormatNcCodeGuarded(raw) ==
    IF Len(raw) < 2 THEN raw ELSE Take(raw, 2) \o <<"-">> \o Drop(raw, 2)

\* A variant that slices one character too far.
FormatNcCodeAfterThird(raw) == Take(raw, 3) \o <<"-">> \o Drop(raw, 3)

\* nc_code = nc_code[:2] + "-" + nc_code[2:]
FormatNcCode(raw) == Take(raw, 2) \o <<"-">> \o Drop(raw, 2)

Code(r) == FormatNcCode(RawCode(r))
ItemUrl(r) == <<"https://abc2.nc.gov/item/", Digit[r]>>
SearchQuery(r) == <<"Brand", Digit[r], " ", "750ml">>
CodeAndQuery(r) == Code(r) \o <<"~">> \o SearchQuery(r)

\* A nullable text column of a result row.
Null == [isNull |-> TRUE, text |-> <<>>]
Text(s) == [isNull |-> FALSE, text |-> s]

\* Python truthiness of `url and url.strip()`.
UrlIsValid(u) == ~u.isNull /\ u.text # <<>> /\ Strip(u.text) # <<>>

\* A variant of the origin that ends with a slash.
BaseUrlWithSlash == <<"https://abc2.nc.gov", "/">>

\* base_url = "https://abc2.nc.gov"
BaseUrl == <<"https://abc2.nc.gov">>
\* The literal the loop looks for: "x-raw-image:"
Sentinel == <<"x-raw-image", ":">>
SentinelSrc == <<"x-raw-image", ":", "//placeholder">>
GoodSrc(r) == <<"/images/", Digit[r], ".jpg">>
OldImageUrl == <<"x-raw-image", ":", "//old">>
\* The same placeholder as a page may spell it in capital letters.
UpperSentinelSrc == <<"X-RAW-IMAGE", ":", "//placeholder">>

\* SQL LOWER() over the fragments that have capital letters here.
Lower(s) ==
    [k \in DOMAIN s |-> IF s[k] = "X-RAW-IMAGE" THEN "x-raw-image" ELSE s[k]]

\* The join condition of the selection query:
\* LOWER(ppl.image_url) LIKE '%x-raw-image%'
SelectedAsPlaceholder(image_url) ==
    Contains(Lower(image_url), <<"x-raw-image">>)

Absent == [present |-> FALSE, text |-> <<>>]
Present(s) == [present |-> TRUE, text |-> s]

\* A document of the item site: whether the container div is there, the text
\* of the element that holds the h3 heading, the text of each "row" div of
\* the container in document order, and the src of the product image.
Document(status, container, heading, rows, img) ==
    [kind |-> "response", status |-> status, container |-> container,
     heading |-> heading, rows |-> rows, img |-> img]

HttpError == [kind |-> "exception", status |-> 0, container |-> FALSE,
              heading |-> Absent, rows |-> <<>>, img |-> Absent]
Http500 == Document(500, FALSE, Absent, <<>>, Absent)

\* The text of a row div that shows one label and its value on two lines.
LabelRow(label, value) == <<label, ":", "\n">> \o value

\* A 200 page with no heading and at most the NC Code row.
Page(container, nc, img) ==
    Document(200, container, Absent,
             IF nc.present THEN <<LabelRow("NC Code", nc.text)>> ELSE <<>>, img)

\* The delimiter the heading text is split on.
EffectiveDateDelimiter == " Effective Date: "
GoodHeading == <<"Brand", EffectiveDateDelimiter, "2025-01-01">>
\* A heading that shows the brand only.
BareHeading == <<"Brand">>

\* The row whose item page a valid url names.
RowOfUrl(u) == CHOOSE r \in 1..Len(Digit) : ItemUrl(r) = u.text
RowOfQuery(cq) == CHOOSE r \in 1..Len(Digit) : CodeAndQuery(r) = cq

\* What the item site may answer for a request of url u.  A null or blank
\* url makes the HTTP client raise.
ItemResponses(u) ==
    IF ~UrlIsValid(u) THEN {HttpError}
    ELSE LET r == RowOfUrl(u) IN
         {HttpError, Http500,
          Document(200, FALSE, Present(BareHeading),
                   <<LabelRow("NC Code", RawCode(r))>>, Present(GoodSrc(r))),
          Page(TRUE, Present(RawCode(r)), Absent),
          Page(TRUE, Present(RawCode(r)), Present(GoodSrc(r))),
          Page(TRUE, Present(RawCode(r)), Present(SentinelSrc)),
          Page(TRUE, Present(RawCode(r)), Present(UpperSentinelSrc)),
          Page(TRUE, Absent, Present(GoodSrc(r))),
          Document(200, TRUE, Present(BareHeading),
                   <<LabelRow("NC Code", RawCode(r))>>, Present(GoodSrc(r)))}

SearchOk(link) == [kind |-> "items", link |-> link]
SearchFailure(kind) == [kind |-> kind, link |-> <<>>]
SearchFailures ==
    {SearchFailure("RateLimited"), SearchFailure("Unreachable"),
     SearchFailure("BadRequest"), SearchFailure("NotFound")}

\* What the search API may answer for a code_and_query string.
SearchResponses(cq) ==
    {SearchOk(<<"https://img.example/", Digit[RowOfQuery(cq)]>>),
     SearchOk(SentinelSrc)} \cup SearchFailures

-----------------------------------------------------------------------------
(* Extraction                                                              *)

\* The keys of item_details_column_names.
FieldNames ==
    {"nc_code", "brand_name", "effective_date", "bottle_size", "proof",
     "bottles_per_case", "upc", "retail_price", "mxb_price",
     "case_cost_less_bailment", "distiller", "product_image_url"}

\* A variant of the dictionary that is created without the image field.
DefaultRecordWithoutImage ==
    [f \in FieldNames \ {"product_image_url"} |-> <<>>]

\* item_details_column_names as created: every field is "".
DefaultRecord == [f \in FieldNames |-> <<>>]

\* A variant of the table that looks for the Proof label in upper case.
LabelOfFieldUpperProof ==
    [nc_code |-> <<"NC Code">>, bottle_size |-> <<"Bottle Size">>,
     proof |-> <<"PROOF">>, bottles_per_case |-> <<"Bottles per Case">>,
     upc |-> <<"UPC">>, retail_price |-> <<"Retail Price">>,
     mxb_price |-> <<"Mixed Beverage Price">>,
     case_cost_less_bailment |-> <<"Case Cost Less Bailment">>,
     distiller |-> <<"Distiller">>]

\* The label whose value each field is assigned from after the loop.
LabelOfField ==
    [nc_code |-> <<"NC Code">>, bottle_size |-> <<"Bottle Size">>,
     proof |-> <<"Proof">>, bottles_per_case |-> <<"Bottles per Case">>,
     upc |-> <<"UPC">>, retail_price |-> <<"Retail Price">>,
     mxb_price |-> <<"Mixed Beverage Price">>,
     case_cost_less_bailment |-> <<"Case Cost Less Bailment">>,
     distiller |-> <<"Distiller">>]

\* h3_tag_text.split(" Effective Date: ") of the stripped heading text.
HeadingParts(page) == Split(Strip(page.heading.text), EffectiveDateDelimiter)

\* [item for item in div_tag_text.split("\n") if item != ""]
RowSegments(text) ==
    SelectSeq(Split(Strip(text), "\n"), LAMBDA item : item # <<>>)

\* desc.replace(":", "")
RemoveColons(s) == SelectSeq(s, LAMBDA c : c # ":")

\* A variant that reads a pair off every row of two segments or more.
RowPairsFromAnyRow(text) ==
    LET seg == RowSegments(text) IN
    IF Len(seg) >= 4
    THEN <<[desc |-> RemoveColons(seg[1]), value |-> seg[2]],
           [desc |-> RemoveColons(seg[3]), value |-> seg[4]]>>
    ELSE IF Len(seg) >= 2
    THEN <<[desc |-> RemoveColons(seg[1]), value |-> seg[2]]>>
    ELSE <<>>

\* The (desc, value) assignments one row div makes: two for four segments,
\* one for two segments, none otherwise.
RowPairs(text) ==
    LET seg == RowSegments(text) IN
    IF Len(seg) = 4
    THEN <<[desc |-> RemoveColons(seg[1]), value |-> seg[2]],
           [desc |-> RemoveColons(seg[3]), value |-> seg[4]]>>
    ELSE IF Len(seg) = 2
    THEN <<[desc |-> RemoveColons(seg[1]), value |-> seg[2]]>>
    ELSE <<>>

\* item_details_column_values, as the assignments made in document order.
RECURSIVE ColumnValues(_)
ColumnValues(rows) ==
    IF rows = <<>> THEN <<>>
    ELSE RowPairs(Head(rows)) \o ColumnValues(Tail(rows))

\* `label in item_details_column_values` and the value stored last.
HasLabel(values, label) == \E k \in 1..Len(values) : values[k].desc = label
ValueOf(values, label) ==
    LET last == CHOOSE k \in 1..Len(values) :
                    /\ values[k].desc = label
                    /\ \A j \in (k + 1)..Len(values) : values[j].desc # label
    IN values[last].value

\* h3_tag_text_list[1] raises IndexError when the heading text does not hold
\* the delimiter.
ExtractRaises(page) ==
    page.container /\ page.heading.present /\ Len(HeadingParts(page)) < 2

\* A variant that looks for the product image before the container test.
ExtractImageFirst(page) ==
    [DefaultRecord EXCEPT !.product_image_url =
        IF page.img.present THEN BaseUrl \o page.img.text ELSE <<>>]

\* scrape_item_details on a 200 response: the dictionary it returns when
\* nothing is raised (effective_date is read only when ExtractRaises is
\* false).
Extract(page) ==
    IF ~page.container THEN DefaultRecord
    ELSE LET values == ColumnValues(page.rows)
             parts == HeadingParts(page)
         IN [f \in FieldNames |->
                IF f = "brand_name"
                THEN IF page.heading.present THEN parts[1] ELSE <<>>
                ELSE IF f = "effective_date"
                THEN IF page.heading.present /\ Len(parts) >= 2
                     THEN parts[2] ELSE <<>>
                ELSE IF f = "product_image_url"
                THEN IF page.img.present THEN BaseUrl \o page.img.text
                     ELSE <<>>
                ELSE IF ~HasLabel(values, LabelOfField[f]) THEN <<>>
                ELSE IF f = "nc_code"
                THEN FormatNcCode(ValueOf(values, LabelOfField[f]))
                ELSE ValueOf(values, LabelOfField[f])]

\* google_custom_image_search on success: f"{nc_code}~{image_url}", with
\* nc_code = code_and_query.split("~")[0].
SearchResult(code_and_query, answer) ==
    Split(code_and_query, "~")[1] \o <<"~">> \o answer.link

-----------------------------------------------------------------------------
(* State                                                                   *)

VARIABLES
    script,               \* which script this process runs
    pc,                   \* position of the main program
    exit,                 \* "running", or the exit status once terminated
    df,                   \* rows of the upstream query
    urls,                 \* argument of the current process_urls call
    pcall,                \* "idle" | "running" | "returned" | "raised"
    tstate,               \* per fetch: "pending" | "done" | "failed"
    attempts,             \* per fetch in progress: attempts that raised
    served,               \* per fetch: the locator asked, the final answer
    tresult,              \* per fetch: the value the coroutine returned
    completed,            \* fetch indexes in order of completion
    results,              \* value returned by process_urls
    table,                \* nc_abc.backfill_missing_image_urls
    no_x_raw_image_urls,  \* loop flag of replace_x_image_urls.py
    passes,               \* calls of replace_x_raw_image_urls so far
    pass_log,             \* the urls each of those calls scraped, the lists it returned
    nc_code_list,
    image_url_list,
    update_query,         \* the UPDATE text, placeholders filled or not
    idx,                  \* position of the update loop in the zipped lists
    issued,               \* UPDATE statements executed so far
    etl_runs,             \* executions of the truncate-and-insert
    final_product_list,   \* nc_abc.final_product_list
    blob,                 \* the CSV object of the script in the bucket
    upload,               \* "none" | "ok" | "failed": the upload call so far
    loads,                \* calls of load_csv_to_bigquery so far
    item_details,         \* nc_abc.item_details
    document,             \* extractor on its own: the document it is given
    extracted,            \* extractor on its own: what the call came to
    policy_case,          \* retry decorator on its own: one attempt's outcome
    round_trip,           \* code~value strings on their own: one locator's way
    pipeline,             \* the DAG on its own: the state of its four tasks
    price_list            \* price-list parser on its own: elements and columns

fvars == <<urls, pcall, tstate, attempts, served, tresult, completed, results>>
xvars == <<table, no_x_raw_image_urls, passes, pass_log, nc_code_list, image_url_list,
           update_query, idx, issued, etl_runs, final_product_list>>
svars == <<blob, upload, loads, item_details>>
hvars == <<round_trip, pipeline, price_list>>
uvars == <<document, extracted, policy_case, hvars>>
vars == <<script, pc, exit, df, fvars, xvars, svars, uvars>>

\* One row of the upstream query; each script reads its own columns.
Row(r, url) ==
    [nc_code |-> Code(r), item_details_url |-> url,
     code_and_query |-> CodeAndQuery(r)]

\* item_details_url of row r can be the row's url, NULL or blank.
UrlChoices(r) == {Text(ItemUrl(r)), Null, Text(<<" ">>)}

\* Every result the upstream query can have, up to MaxRecords rows.
DataFrames ==
    UNION {{d \in [1..n -> UNION {{Row(r, u) : u \in UrlChoices(r)} : r \in 1..n}] :
               \A r \in 1..n : d[r].nc_code = Code(r)}
           : n \in 0..MaxRecords}

\* The UPDATE text before any placeholder is replaced.
Placeholder == [filled |-> FALSE, text |-> <<>>]
Filled(s) == [filled |-> TRUE, text |-> s]
UpdateTemplate == [image_url |-> Placeholder, nc_code |-> Placeholder]

\* The rows the selection query joined on: every row of df is a row of the
\* backfill table whose image_url holds the x-raw-image placeholder.
InitialTable(d) ==
    [r \in 1..Len(d) |-> [nc_code |-> d[r].nc_code, image_url |-> OldImageUrl]]

\* The CSV object a previous run of the script left in the bucket, if any,
\* and the rows the target table holds from that run.
NoBlob == [exists |-> FALSE, rows |-> <<>>]
Csv(rows) == [exists |-> TRUE, rows |-> rows]
StaleRows == <<[nc_code |-> <<"stale">>]>>

\* The extractor and the retry decorator are not being looked at on their own.
NoDocument == [kind |-> "none"]
NotExtracted == [state |-> "idle", record |-> DefaultRecord]
NoPolicyCase == [state |-> "idle"]
\* Nor are the code~value strings, the DAG and the price-list parser.
NoRoundTrip == [state |-> "idle"]
NoPipeline == [state |-> "idle"]
NoPriceList == [state |-> "idle"]
HarnessesIdle ==
    /\ round_trip = NoRoundTrip
    /\ pipeline = NoPipeline
    /\ price_list = NoPriceList

\* The state of a process before its first statement, whatever the script.
ProcessStarts ==
    /\ exit = "running"
    /\ urls = <<>>
    /\ pcall = "idle"
    /\ tstate = <<>>
    /\ attempts = <<>>
    /\ served = <<>>
    /\ tresult = <<>>
    /\ completed = <<>>
    /\ results = <<>>
    /\ no_x_raw_image_urls = FALSE
    /\ passes = 0
    /\ pass_log = <<>>
    /\ nc_code_list = <<>>
    /\ image_url_list = <<>>
    /\ update_query = UpdateTemplate
    /\ idx = 0
    /\ issued = <<>>
    /\ etl_runs = 0
    /\ upload = "none"
    /\ loads = 0

Init ==
    /\ script \in Scripts
    /\ df \in DataFrames
    /\ script = ReplaceMissingUrls =>
           \A r \in 1..Len(df) : df[r].item_details_url = Text(ItemUrl(r))
    /\ pc = IF script = ReplaceXImageUrls THEN "while" ELSE "main"
    /\ ProcessStarts
    /\ table = IF script = ReplaceXImageUrls THEN InitialTable(df) ELSE <<>>
    /\ final_product_list = table
    /\ blob \in IF script = ReplaceXImageUrls THEN {NoBlob}
                ELSE {NoBlob, Csv(StaleRows)}
    /\ item_details = IF script = ScrapeItemDetails THEN StaleRows ELSE <<>>
    /\ document = NoDocument
    /\ extracted = NotExtracted
    /\ policy_case = NoPolicyCase
    /\ HarnessesIdle

-----------------------------------------------------------------------------
(* process_urls: fan-out of one fetch per locator, fan-in of the results   *)

NoAnswer == [kind |-> "none"]

\* The fetches of a fresh process_urls(us) call.
CallProcessUrls(us) ==
    /\ urls' = us
    /\ pcall' = "running"
    /\ tstate' = [i \in 1..Len(us) |-> "pending"]
    /\ attempts' = [i \in 1..Len(us) |-> 0]
    /\ served' = [i \in 1..Len(us) |-> [url |-> us[i], answer |-> NoAnswer]]
    /\ tresult' = [i \in 1..Len(us) |-> <<>>]
    /\ completed' = <<>>
    /\ results' = <<>>

\* What the source may answer to fetch i of the running call.
Answers(scr, u) ==
    IF scr = ReplaceMissingUrls THEN SearchResponses(u.text)
    ELSE ItemResponses(u)

\* A variant of the search body that raises a 4xx status as an error of a
\* class the decorator does not retry.
RaisedWithPermanentClass(scr, answer) ==
    IF scr = ReplaceMissingUrls
    THEN IF answer.kind = "items" THEN "none"
         ELSE IF answer.kind = "BadRequest" THEN "PermanentError"
         ELSE "Exception"
    ELSE IF answer.kind = "exception" \/ answer.status # 200
              \/ ExtractRaises(answer)
         THEN "SystemExit" ELSE "none"

\* A variant of the coroutine body that does not test response.status.
RaisedWithoutStatusTest(scr, answer) ==
    IF scr = ReplaceMissingUrls
    THEN IF answer.kind = "items" THEN "none" ELSE "Exception"
    ELSE IF answer.kind = "exception" \/ ExtractRaises(answer)
         THEN "SystemExit" ELSE "none"

\* What the decorated coroutine body raises for an answer: scrape_item_details
\* calls sys.exit(1) on a non-200 status and inside its `except Exception`;
\* google_custom_image_search logs and re-raises the exception.
Raised(scr, answer) ==
    IF scr = ReplaceMissingUrls
    THEN IF answer.kind = "items" THEN "none" ELSE "Exception"
    ELSE IF answer.kind = "exception" \/ answer.status # 200
              \/ ExtractRaises(answer)
         THEN "SystemExit" ELSE "none"

\* The value the coroutine returns when nothing is raised.
TaskResult(scr, u, answer) ==
    IF scr = ReplaceMissingUrls THEN SearchResult(u.text, answer)
    ELSE Extract(answer)

\* A variant of the stop test that allows one attempt more.
RetryAgainOneMore(scr, exc, n) == exc = "Exception" /\ n <= MaxAttempts(scr)

\* @retry(stop=stop_after_attempt(n), ...) re-runs the body only for
\* exceptions derived from Exception, and only while fewer than n attempts
\* were made; SystemExit passes through on the first attempt.
RetryAgain(scr, exc, n) == exc = "Exception" /\ n < MaxAttempts(scr)

\* A variant that ends the process the way a bare exit() does.
FetchFailureExitNoStatus == "status0"

\* Exit status of the process when a fetch ends in an exception: sys.exit(1)
\* in the scrapers, the uncaught RetryError in the image search.
FetchFailureExit == "status1"

\* A variant in which a fetch waits for every earlier fetch of the call, as
\* under a limit of one worker.
CanAttemptOneAtATime(i) ==
    /\ exit = "running"
    /\ pcall = "running"
    /\ i \in 1..Len(urls)
    /\ tstate[i] = "pending"
    /\ \A j \in 1..(i - 1) : tstate[j] = "done"

\* Fetch i may take a step: with gather every pending fetch may, in the for
\* loop only the first one that has not returned.
CanAttempt(i) ==
    /\ exit = "running"
    /\ pcall = "running"
    /\ i \in 1..Len(urls)
    /\ tstate[i] = "pending"
    /\ Sequential(script) => \A j \in 1..(i - 1) : tstate[j] = "done"

\* The fetches of the running call that are in flight: started, not finished.
InFlight == Cardinality({i \in 1..Len(urls) : CanAttempt(i)})

\* A variant in which the fetches fill one dictionary they all share: every
\* fetch that has returned holds the values written last.
FetchSucceedsSharedRecord(i) ==
    /\ CanAttempt(i)
    /\ \E a \in Answers(script, urls[i]) :
          /\ Raised(script, a) = "none"
          /\ served' = [served EXCEPT ![i].answer = a]
          /\ tresult' = [j \in 1..Len(urls) |->
                            IF j = i \/ tstate[j] = "done"
                            THEN TaskResult(script, urls[i], a)
                            ELSE tresult[j]]
    /\ attempts' = [attempts EXCEPT ![i] = 0]
    /\ tstate' = [tstate EXCEPT ![i] = "done"]
    /\ completed' = Append(completed, i)
    /\ UNCHANGED <<script, pc, exit, df, urls, pcall, results, xvars, svars, uvars>>

\* An attempt returns a value; the retry state of the call is discarded.
FetchSucceeds(i) ==
    /\ CanAttempt(i)
    /\ \E a \in Answers(script, urls[i]) :
          /\ Raised(script, a) = "none"
          /\ served' = [served EXCEPT ![i].answer = a]
          /\ tresult' = [tresult EXCEPT ![i] = TaskResult(script, urls[i], a)]
    /\ attempts' = [attempts EXCEPT ![i] = 0]
    /\ tstate' = [tstate EXCEPT ![i] = "done"]
    /\ completed' = Append(completed, i)
    /\ UNCHANGED <<script, pc, exit, df, urls, pcall, results, xvars, svars, uvars>>

\* An attempt raises and the decorator schedules another one.
FetchRetried(i) ==
    /\ CanAttempt(i)
    /\ \E a \in Answers(script, urls[i]) :
          RetryAgain(script, Raised(script, a), attempts[i] + 1)
    /\ attempts' = [attempts EXCEPT ![i] = @ + 1]
    /\ UNCHANGED <<script, pc, exit, df, urls, pcall, tstate, served, tresult,
                   completed, results, xvars, svars, uvars>>

\* The fetch ends in an exception: gather (or the for loop) passes it to the
\* caller, no handler of the script catches it, and the process ends.
FetchFails(i) ==
    /\ CanAttempt(i)
    /\ \E a \in Answers(script, urls[i]) :
          /\ Raised(script, a) # "none"
          /\ ~RetryAgain(script, Raised(script, a), attempts[i] + 1)
          /\ served' = [served EXCEPT ![i].answer = a]
    /\ attempts' = [attempts EXCEPT ![i] = @ + 1]
    /\ tstate' = [tstate EXCEPT ![i] = "failed"]
    /\ pcall' = "raised"
    /\ exit' = FetchFailureExit
    /\ UNCHANGED <<script, pc, df, urls, tresult, completed, results, xvars, svars, uvars>>

\* A variant that collects the values as the fetches complete.
GatherResultsAsCompleted == [k \in 1..Len(urls) |-> tresult[completed[k]]]

\* asyncio.gather(*tasks) / the for loop's results list: one entry per
\* argument, in argument order.
GatherResults == [i \in 1..Len(urls) |-> tresult[i]]

\* A variant that returns from inside the loop, as soon as one fetch has
\* returned a value.
ProcessUrlsReturnsInsideLoop ==
    /\ exit = "running"
    /\ pcall = "running"
    /\ completed # <<>>
    /\ results' = [k \in 1..Len(completed) |-> tresult[completed[k]]]
    /\ pcall' = "returned"
    /\ UNCHANGED <<script, pc, exit, df, urls, tstate, attempts, served,
                   tresult, completed, xvars, svars, uvars>>

ProcessUrlsReturns ==
    /\ exit = "running"
    /\ pcall = "running"
    /\ \A i \in 1..Len(urls) : tstate[i] = "done"
    /\ results' = GatherResults
    /\ pcall' = "returned"
    /\ UNCHANGED <<script, pc, exit, df, urls, tstate, attempts, served,
                   tresult, completed, xvars, svars, uvars>>

\* main() of scrape_item_details.py and the __main__ block of
\* replace_missing_urls.py: read the query result and call process_urls.
Column(d, scr) ==
    [r \in 1..Len(d) |-> IF scr = ReplaceMissingUrls
                         THEN Text(d[r].code_and_query)
                         ELSE d[r].item_details_url]

MainCallsProcessUrls ==
    /\ script \in {ScrapeItemDetails, ReplaceMissingUrls}
    /\ exit = "running"
    /\ pc = "main"
    /\ pc' = "process_urls"
    /\ CallProcessUrls(Column(df, script))
    /\ UNCHANGED <<script, exit, df, xvars, svars, uvars>>

\* The DataFrame built from the results: the dictionaries as they are in
\* scrape_item_details.py, result.split("~")[0] and [1] in
\* replace_missing_urls.py.
BuildDataFrame(scr, res) ==
    IF scr = ReplaceMissingUrls
    THEN [k \in 1..Len(res) |-> [nc_code |-> Split(res[k], "~")[1],
                                 image_url |-> Split(res[k], "~")[2]]]
    ELSE res

\* df_to_gcloud_storage_bucket: the CSV is written to the blob, or the call
\* raises, and then the function prints the error and returns like after a
\* success.
UploadCsv ==
    /\ script \in {ScrapeItemDetails, ReplaceMissingUrls}
    /\ exit = "running"
    /\ pc = "process_urls"
    /\ pcall = "returned"
    /\ \E ok \in BOOLEAN :
          /\ upload' = IF ok THEN "ok" ELSE "failed"
          /\ blob' = IF ok THEN Csv(BuildDataFrame(script, results)) ELSE blob
    /\ pc' = "load"
    /\ UNCHANGED <<script, exit, df, fvars, xvars, loads, item_details, uvars>>

\* load_csv_to_bigquery with WRITE_TRUNCATE: the rows of the target table
\* are replaced by the rows of the CSV object, and the script ends.
LoadCsv ==
    /\ script \in {ScrapeItemDetails, ReplaceMissingUrls}
    /\ exit = "running"
    /\ pc = "load"
    /\ blob.exists
    /\ loads' = loads + 1
    /\ IF script = ScrapeItemDetails
       THEN item_details' = blob.rows /\ UNCHANGED table
       ELSE table' = blob.rows /\ UNCHANGED item_details
    /\ pc' = "done"
    /\ exit' = "status0"
    /\ UNCHANGED <<script, df, fvars, no_x_raw_image_urls, passes, pass_log,
                   nc_code_list, image_url_list, update_query, idx, issued,
                   etl_runs, final_product_list, blob, upload, uvars>>

\* The load job raises (there is no object to load, or the job fails): the
\* target table is left alone and the process exits with status 1.
LoadRaises ==
    /\ script \in {ScrapeItemDetails, ReplaceMissingUrls}
    /\ exit = "running"
    /\ pc = "load"
    /\ loads' = loads + 1
    /\ exit' = "status1"
    /\ UNCHANGED <<script, pc, df, fvars, xvars, blob, upload, item_details,
                   uvars>>

-----------------------------------------------------------------------------
(* replace_x_image_urls.py: the __main__ block                             *)

\* Variants of the while test: one that never fails, one that is inverted.
WhileConditionAlways == TRUE
WhileConditionInverted == no_x_raw_image_urls

\* `while not no_x_raw_image_urls:`
WhileCondition == ~no_x_raw_image_urls

\* A variant that, after the first pass, keeps only the rows whose code came
\* back with an image value that holds the sentinel.
RECURSIVE ValidUrlsOfUnresolved(_)
ValidUrlsOfUnresolved(d) ==
    IF d = <<>> THEN <<>>
    ELSE IF /\ UrlIsValid(Head(d).item_details_url)
            /\ \/ passes = 0
               \/ \E k \in 1..Len(image_url_list) :
                     /\ nc_code_list[k] = Head(d).nc_code
                     /\ Contains(image_url_list[k], Sentinel)
         THEN <<Head(d).item_details_url>> \o ValidUrlsOfUnresolved(Tail(d))
         ELSE ValidUrlsOfUnresolved(Tail(d))

\* The rows replace_x_raw_image_urls keeps: `if url and url.strip()`.
RECURSIVE ValidUrls(_)
ValidUrls(d) ==
    IF d = <<>> THEN <<>>
    ELSE IF UrlIsValid(Head(d).item_details_url)
         THEN <<Head(d).item_details_url>> \o ValidUrls(Tail(d))
         ELSE ValidUrls(Tail(d))

\* valid_nc_codes: the codes of the rows kept, in their order. The function
\* builds the list and does not read it.
RECURSIVE ValidNcCodes(_)
ValidNcCodes(d) ==
    IF d = <<>> THEN <<>>
    ELSE IF UrlIsValid(Head(d).item_details_url)
         THEN <<Head(d).nc_code>> \o ValidNcCodes(Tail(d))
         ELSE ValidNcCodes(Tail(d))

\* A variant of the test that looks for the placeholder as the selection
\* query does.
AnySentinelAsSelected(list) ==
    \E i \in 1..Len(list) : SelectedAsPlaceholder(list[i])

\* any("x-raw-image:" in image_url for image_url in image_url_list)
AnySentinel(list) == \E i \in 1..Len(list) : Contains(list[i], Sentinel)

\* update_query.replace("{image_url}", image_url).replace("{nc_code}", nc_code):
\* a placeholder that is no longer in the text is not replaced.
ReplacePlaceholders(q, image_url, nc_code) ==
    [image_url |-> IF q.image_url.filled THEN q.image_url ELSE Filled(image_url),
     nc_code |-> IF q.nc_code.filled THEN q.nc_code ELSE Filled(nc_code)]

\* A variant that inserts a row instead of updating the matching ones.
ExecInsert(t, q) ==
    Append(t, [nc_code |-> q.nc_code.text, image_url |-> q.image_url.text])

\* UPDATE backfill_missing_image_urls SET image_url = .. WHERE nc_code = ..
ExecUpdate(t, q) ==
    [r \in 1..Len(t) |->
        IF t[r].nc_code = q.nc_code.text
        THEN [t[r] EXCEPT !.image_url = q.image_url.text]
        ELSE t[r]]

\* `exit()` of the `except Exception` branch: no status is given.
ExceptBranchExit == "status0"

\* Entry of replace_x_raw_image_urls(): filter the urls, and either return
\* two empty lists at once or call process_urls on the valid ones.
StartPass(pcFetching, pcEmpty) ==
    /\ passes' = passes + 1
    /\ IF ValidUrls(df) = <<>>
       THEN /\ nc_code_list' = <<>>
            /\ image_url_list' = <<>>
            /\ pass_log' = Append(pass_log, [urls |-> <<>>, nc_codes |-> <<>>,
                                             image_urls |-> <<>>])
            /\ pc' = pcEmpty
            /\ UNCHANGED fvars
       ELSE /\ CallProcessUrls(ValidUrls(df))
            /\ pc' = pcFetching
            /\ UNCHANGED <<nc_code_list, image_url_list, pass_log>>

\* The while test succeeds and the body calls replace_x_raw_image_urls().
LoopBodyStarts ==
    /\ script = ReplaceXImageUrls
    /\ exit = "running"
    /\ pc = "while"
    /\ WhileCondition
    /\ StartPass("pass1", "check")
    /\ UNCHANGED <<script, exit, df, table, no_x_raw_image_urls, update_query,
                   idx, issued, etl_runs, final_product_list,
                   svars, uvars>>

\* process_urls has returned inside replace_x_raw_image_urls(): build the two
\* lists from the result dictionaries and return them to the loop body.
PassCollects ==
    /\ script = ReplaceXImageUrls
    /\ exit = "running"
    /\ pc \in {"pass1", "pass2"}
    /\ pcall = "returned"
    /\ nc_code_list' = [i \in 1..Len(results) |-> results[i].nc_code]
    /\ image_url_list' = [i \in 1..Len(results) |-> results[i].product_image_url]
    /\ pass_log' = Append(pass_log, [urls |-> urls,
                                     nc_codes |-> nc_code_list',
                                     image_urls |-> image_url_list'])
    /\ pcall' = "idle"
    /\ pc' = IF pc = "pass1" THEN "check" ELSE "begin_update"
    /\ UNCHANGED <<script, exit, df, urls, tstate, attempts, served, tresult,
                   completed, results, table, no_x_raw_image_urls, passes,
                   update_query, idx, issued, etl_runs, final_product_list,
                   svars, uvars>>

\* `if any("x-raw-image:" in ...)`: scrape once more, or go on to the update.
SentinelCheck ==
    /\ script = ReplaceXImageUrls
    /\ exit = "running"
    /\ pc = "check"
    /\ IF AnySentinel(image_url_list)
       THEN StartPass("pass2", "begin_update")
       ELSE /\ pc' = "begin_update"
            /\ UNCHANGED <<fvars, passes, pass_log, nc_code_list, image_url_list>>
    /\ UNCHANGED <<script, exit, df, table, no_x_raw_image_urls, update_query,
                   idx, issued, etl_runs, final_product_list,
                   svars, uvars>>

\* update_query = """UPDATE ...""" and client = bigquery.Client()
BeginUpdate ==
    /\ script = ReplaceXImageUrls
    /\ exit = "running"
    /\ pc = "begin_update"
    /\ update_query' = UpdateTemplate
    /\ idx' = 1
    /\ pc' = "update"
    /\ UNCHANGED <<script, exit, df, fvars, table, no_x_raw_image_urls, passes,
                   pass_log, nc_code_list, image_url_list, issued, etl_runs,
                   final_product_list,
                   svars, uvars>>

\* One iteration of `for nc_code, image_url in zip(...)` whose query succeeds.
UpdateStep ==
    /\ script = ReplaceXImageUrls
    /\ exit = "running"
    /\ pc = "update"
    /\ idx <= Min(Len(nc_code_list), Len(image_url_list))
    /\ update_query' = ReplacePlaceholders(update_query, image_url_list[idx],
                                           nc_code_list[idx])
    /\ table' = ExecUpdate(table, update_query')
    /\ issued' = Append(issued, update_query')
    /\ idx' = idx + 1
    /\ UNCHANGED <<script, pc, exit, df, fvars, no_x_raw_image_urls, passes,
                   pass_log, nc_code_list, image_url_list, etl_runs,
                   final_product_list,
                   svars, uvars>>

\* One iteration whose client.query / query_job.result() raises: the
\* `except Exception` branch prints the error and calls exit().
UpdateRaises ==
    /\ script = ReplaceXImageUrls
    /\ exit = "running"
    /\ pc = "update"
    /\ idx <= Min(Len(nc_code_list), Len(image_url_list))
    /\ update_query' = ReplacePlaceholders(update_query, image_url_list[idx],
                                           nc_code_list[idx])
    /\ exit' = ExceptBranchExit
    /\ UNCHANGED <<script, pc, df, fvars, table, no_x_raw_image_urls, passes,
                   pass_log, nc_code_list, image_url_list, idx, issued, etl_runs,
                   final_product_list,
                   svars, uvars>>

\* The for loop is exhausted: `no_x_raw_image_urls = True`.
UpdatesDone ==
    /\ script = ReplaceXImageUrls
    /\ exit = "running"
    /\ pc = "update"
    /\ idx > Min(Len(nc_code_list), Len(image_url_list))
    /\ no_x_raw_image_urls' = TRUE
    /\ pc' = "while"
    /\ UNCHANGED <<script, exit, df, fvars, table, passes, pass_log,
                   nc_code_list, image_url_list, update_query, idx, issued,
                   etl_runs, final_product_list,
                   svars, uvars>>

\* The while test fails: control reaches the ETL statement.
LoopExits ==
    /\ script = ReplaceXImageUrls
    /\ exit = "running"
    /\ pc = "while"
    /\ ~WhileCondition
    /\ pc' = "etl"
    /\ UNCHANGED <<script, exit, df, fvars, xvars, svars, uvars>>

\* TRUNCATE TABLE final_product_list; INSERT INTO ... SELECT ...: the image
\* of a backfilled row is COALESCE(id.product_image_url, bmi.image_url).
EtlRuns ==
    /\ script = ReplaceXImageUrls
    /\ exit = "running"
    /\ pc = "etl"
    /\ etl_runs' = etl_runs + 1
    /\ final_product_list' = table
    /\ pc' = "done"
    /\ exit' = "status0"
    /\ UNCHANGED <<script, df, fvars, table, no_x_raw_image_urls, passes,
                   pass_log, nc_code_list, image_url_list, update_query, idx,
                   issued, svars, uvars>>

\* The ETL query raises: nothing catches it and the interpreter exits 1.
EtlRaises ==
    /\ script = ReplaceXImageUrls
    /\ exit = "running"
    /\ pc = "etl"
    /\ etl_runs' = etl_runs + 1
    /\ final_product_list' \in {final_product_list, <<>>}
    /\ exit' = "status1"
    /\ UNCHANGED <<script, pc, df, fvars, table, no_x_raw_image_urls, passes,
                   pass_log, nc_code_list, image_url_list, update_query, idx,
                   issued, svars, uvars>>

\* The state of the convergence loop.
LoopState ==
    IF no_x_raw_image_urls THEN "Resolved"
    ELSE IF exit # "running" THEN "Aborted"
    ELSE "Seeking"

-----------------------------------------------------------------------------
(* scrape_item_details on its own: one call on one 200 document            *)

\* Largest number of row divs in a document.
MaxRows == 2

\* The texts a row div can have: the NC Code row with values of one, two,
\* three and six characters, other labels, rows of two label/value pairs,
\* a label that is not read, a label in another letter case, a row of three
\* lines, a row with a blank line, a row of one line, a row that gives one
\* label twice.
RowTexts ==
    {LabelRow("NC Code", <<"N">>),
     LabelRow("NC Code", <<"N", "C">>),
     LabelRow("NC Code", <<"N", "C", "1">>),
     LabelRow("NC Code", <<"N", "C", "1", "2", "3", "4">>),
     LabelRow("Proof", <<"80">>),
     LabelRow("Bottle Size", <<"750ml">>) \o <<"\n">> \o LabelRow("UPC", <<"0123">>),
     LabelRow("Vintage", <<"1999">>),
     LabelRow("PROOF", <<"90">>),
     LabelRow("Bottles per Case", <<"12">>) \o <<"\n">>
         \o LabelRow("Mixed Beverage Price", <<"$10.95">>),
     LabelRow("Case Cost Less Bailment", <<"$100">>) \o <<"\n">>
         \o LabelRow("Retail Price", <<"$8.95">>),
     LabelRow("Retail Price", <<"$9.95">>) \o <<"\n", "each">>,
     <<"Distiller", ":", "\n", "\n", "Acme">>,
     <<"UPC", ":">>,
     LabelRow("Proof", <<"86">>) \o <<"\n">> \o LabelRow("Proof", <<"100">>)}

Documents ==
    {Document(200, c, h, rows, img) :
        c \in BOOLEAN,
        h \in {Absent, Present(GoodHeading), Present(BareHeading)},
        rows \in UNION {[1..n -> RowTexts] : n \in 0..MaxRows},
        img \in {Absent, Present(GoodSrc(1)), Present(SentinelSrc),
                 Present(<<>>)}}

InitExtract ==
    /\ script = ScrapeItemDetails
    /\ df = <<>>
    /\ pc = "scrape_item_details"
    /\ ProcessStarts
    /\ table = <<>>
    /\ final_product_list = <<>>
    /\ blob = NoBlob
    /\ item_details = <<>>
    /\ document \in Documents
    /\ extracted = NotExtracted
    /\ policy_case = NoPolicyCase
    /\ HarnessesIdle

\* The body of scrape_item_details from the container test on.
ExtractDocument ==
    /\ document # NoDocument
    /\ extracted.state = "idle"
    /\ extracted' = IF ExtractRaises(document)
                    THEN [state |-> "raised", record |-> DefaultRecord]
                    ELSE [state |-> "returned", record |-> Extract(document)]
    /\ UNCHANGED <<script, pc, exit, df, fvars, xvars, svars, document,
                   policy_case, hvars>>

-----------------------------------------------------------------------------
(* The retry decorators on their own: one attempt and what follows it      *)

\* wait_exponential(multiplier=1, min=4, max=10) and (..., min=4, max=15).
WaitMultiplier == 1
WaitMin == 4
ItemDetailWaitMax == 10
ImageSearchWaitMax == 15

WaitMax(scr) ==
    IF scr = ReplaceMissingUrls THEN ImageSearchWaitMax ELSE ItemDetailWaitMax

Max(a, b) == IF a > b THEN a ELSE b

\* min(multiplier * 2 ** k, cap), computed without leaving the cap: the
\* library takes the minimum with max once, which gives the same number.
RECURSIVE CappedExponential(_, _)
CappedExponential(k, cap) ==
    IF k = 0 THEN Min(WaitMultiplier, cap)
    ELSE Min(2 * CappedExponential(k - 1, cap), cap)

\* A variant of the wait that is not clamped from below.
WaitExponentialNoMin(scr, n) == CappedExponential(n - 1, WaitMax(scr))

\* The seconds slept after attempt number n raised:
\* max(max(0, min), min(multiplier * 2 ** (n - 1), max)).
WaitExponential(scr, n) ==
    Max(Max(0, WaitMin), CappedExponential(n - 1, WaitMax(scr)))

\* What the decorator does after attempt number n of the body: hand the
\* value back, sleep and call the body again, or let an exception out.
Decide(scr, exc, n) ==
    IF exc = "none" THEN "return"
    ELSE IF RetryAgain(scr, exc, n) THEN "retry"
    ELSE "raise"

\* Largest attempt number looked at.
MaxAttemptNumber == 31

\* The locator of the call that is looked at.
PolicyLocator(scr) ==
    IF scr = ReplaceMissingUrls THEN Text(CodeAndQuery(1)) ELSE Text(ItemUrl(1))

LogLine(level, text) == [level |-> level, text |-> text]

\* A variant of the log in which the search function names the code only.
AttemptLogWithoutQuery(scr, u, answer) ==
    IF scr = ReplaceMissingUrls
    THEN LET nc_code == Split(u.text, "~")[1] IN
         <<LogLine("info", <<"Searching for ">> \o nc_code \o <<"...">>)>>
    ELSE <<LogLine("info", <<"Scraping ">> \o u.text)>>

\* The lines one attempt of the decorated body writes to the logger, in
\* order. google_custom_image_search logs before the request and after the
\* answer, with nc_code and query as process_urls split them off the
\* locator; scrape_item_details is given the url only, logs "Scraping" once
\* the request has answered, and logs the failure it ends on.
AttemptLog(scr, u, answer) ==
    IF scr = ReplaceMissingUrls
    THEN LET nc_code == Split(u.text, "~")[1]
             query == Split(u.text, "~")[2]
             subject == nc_code \o <<"~">> \o query
         IN <<LogLine("info", <<"Searching for ">> \o subject \o <<"...">>)>>
            \o IF answer.kind = "items"
               THEN <<LogLine("info", <<"Found image URL for ">> \o subject
                                         \o <<": ">> \o answer.link)>>
               ELSE <<LogLine("error", <<"Error finding image URL for ">>
                                          \o subject \o <<": ">>
                                          \o <<answer.kind>>)>>
    ELSE IF answer.kind = "exception"
         THEN <<LogLine("error", <<"Error scraping ">> \o u.text
                                    \o <<": ">> \o <<answer.kind>>)>>
         ELSE <<LogLine("info", <<"Scraping ">> \o u.text)>>
              \o IF answer.status # 200
                 THEN <<LogLine("error", <<"Failed to fetch ">> \o u.text
                                            \o <<": Status ">>
                                            \o <<"non-200">>)>>
                 ELSE IF ~answer.container
                 THEN <<LogLine("warning", <<"No item details div found for ">>
                                              \o u.text)>>
                 ELSE IF ExtractRaises(answer)
                 THEN <<LogLine("error", <<"Error scraping ">> \o u.text
                                            \o <<": ">> \o <<"exception">>)>>
                 ELSE <<>>

InitPolicy ==
    /\ script \in Scripts
    /\ df = <<>>
    /\ pc = "retry"
    /\ ProcessStarts
    /\ table = <<>>
    /\ final_product_list = <<>>
    /\ blob = NoBlob
    /\ item_details = <<>>
    /\ document = NoDocument
    /\ extracted = NotExtracted
    /\ HarnessesIdle
    /\ \E a \in Answers(script, PolicyLocator(script)), n \in 1..MaxAttemptNumber :
          policy_case = [state |-> "attempted", answer |-> a, attempt |-> n,
                         decision |-> "none", delay |-> 0, log |-> <<>>]

\* Attempt number n of the body got the answer and logged; the decorator
\* decides.
DecideAttempt ==
    /\ policy_case.state = "attempted"
    /\ policy_case' =
          [policy_case EXCEPT
              !.state = "decided",
              !.log = AttemptLog(script, PolicyLocator(script),
                                 policy_case.answer),
              !.decision = Decide(script, Raised(script, policy_case.answer),
                                  policy_case.attempt),
              !.delay = WaitExponential(script, policy_case.attempt)]
    /\ UNCHANGED <<script, pc, exit, df, fvars, xvars, svars, document,
                   extracted, hvars>>

-----------------------------------------------------------------------------
(* The code~value strings of replace_missing_urls.py on their own          *)

\* The search queries a row of the upstream query can carry: CONCAT of brand
\* name and size, where a brand name may hold any character.
QueriesOfRow(r) ==
    {SearchQuery(r),
     <<"Brand", "~", "Co", " ", "750ml">>,
     <<"Brand", Digit[r], " ", "~", "750ml">>,
     <<"~", "Brand", " ", "1L">>}

\* The links the search API can return as items[0]["link"].
LinksOfRow(r) ==
    {<<"https://img.example/", Digit[r]>>,
     <<"https://img.example/", "~", "user/", Digit[r], ".jpg">>,
     <<"https://img.example/", Digit[r], ".jpg?v=", "~">>,
     <<"https://img.example/", "~", "a/", "~", "b.jpg">>,
     SentinelSrc}

InitRoundTrip ==
    /\ script = ReplaceMissingUrls
    /\ df = <<>>
    /\ pc = "round_trip"
    /\ ProcessStarts
    /\ table = <<>>
    /\ final_product_list = <<>>
    /\ blob = NoBlob
    /\ item_details = <<>>
    /\ document = NoDocument
    /\ extracted = NotExtracted
    /\ policy_case = NoPolicyCase
    /\ pipeline = NoPipeline
    /\ price_list = NoPriceList
    /\ \E r \in 1..MaxRecords : \E q \in QueriesOfRow(r), l \in LinksOfRow(r) :
          round_trip = [state |-> "listed", nc_code |-> Code(r), query |-> q,
                        code_and_query |-> Code(r) \o <<"~">> \o q,
                        link |-> l, sent |-> <<>>, result |-> <<>>, rows |-> <<>>]

\* process_urls builds the task: nc_code=code_and_query.split("~")[0],
\* query=code_and_query.split("~")[1].
TaskBuilt ==
    /\ round_trip.state = "listed"
    /\ round_trip' =
          [round_trip EXCEPT
              !.state = "sent",
              !.sent = [nc_code |-> Split(round_trip.code_and_query, "~")[1],
                        query |-> Split(round_trip.code_and_query, "~")[2]]]
    /\ UNCHANGED <<script, pc, exit, df, fvars, xvars, svars, document,
                   extracted, policy_case, pipeline, price_list>>

\* google_custom_image_search returns f"{nc_code}~{image_url}".
SearchReturns ==
    /\ round_trip.state = "sent"
    /\ round_trip' =
          [round_trip EXCEPT
              !.state = "returned",
              !.result = SearchResult(round_trip.code_and_query,
                                      SearchOk(round_trip.link))]
    /\ UNCHANGED <<script, pc, exit, df, fvars, xvars, svars, document,
                   extracted, policy_case, pipeline, price_list>>

\* The main program splits the result into the two columns of the DataFrame.
ColumnsBuilt ==
    /\ round_trip.state = "returned"
    /\ round_trip' =
          [round_trip EXCEPT
              !.state = "written",
              !.rows = BuildDataFrame(script, <<round_trip.result>>)]
    /\ UNCHANGED <<script, pc, exit, df, fvars, xvars, svars, document,
                   extracted, policy_case, pipeline, price_list>>

-----------------------------------------------------------------------------
(* abc_liquor_board_pipeline_dag.py: one run of the DAG                    *)

PipelineDag == "abc_liquor_board_pipeline_dag.py"

\* The task ids in the order of the dependency line.
TaskIds ==
    <<"scrape_pricing_data", "scrape_item_details", "replace_missing_images",
      "replace_x_images">>

\* default_args: "retries": 3
Retries == 3

\* A variant of the DAG without the dependency line.
UpstreamNone(t) == {}

\* scrape_pricing_data >> scrape_item_details >> replace_missing_images
\* >> replace_x_images: the tasks directly upstream of task t.
Upstream(t) == IF t = 1 THEN {} ELSE {t - 1}

InitPipeline ==
    /\ script = PipelineDag
    /\ df = <<>>
    /\ pc = "dag_run"
    /\ ProcessStarts
    /\ table = <<>>
    /\ final_product_list = <<>>
    /\ blob = NoBlob
    /\ item_details = <<>>
    /\ document = NoDocument
    /\ extracted = NotExtracted
    /\ policy_case = NoPolicyCase
    /\ round_trip = NoRoundTrip
    /\ price_list = NoPriceList
    /\ pipeline = [state |-> "running",
                   task |-> [t \in 1..Len(TaskIds) |-> "none"],
                   tries |-> [t \in 1..Len(TaskIds) |-> 0]]

\* The scheduler starts a task instance that was never run or waits for a
\* retry, once every upstream task has succeeded (trigger rule all_success).
TaskStarts(t) ==
    /\ pipeline.state = "running"
    /\ pipeline.task[t] \in {"none", "up_for_retry"}
    /\ \A u \in Upstream(t) : pipeline.task[u] = "success"
    /\ pipeline' = [pipeline EXCEPT !.task[t] = "running",
                                    !.tries[t] = pipeline.tries[t] + 1]
    /\ UNCHANGED <<script, pc, exit, df, fvars, xvars, svars, document,
                   extracted, policy_case, round_trip, price_list>>

\* The bash command of the task ends with status 0.
TaskSucceeds(t) ==
    /\ pipeline.state = "running"
    /\ pipeline.task[t] = "running"
    /\ pipeline' = [pipeline EXCEPT !.task[t] = "success"]
    /\ UNCHANGED <<script, pc, exit, df, fvars, xvars, svars, document,
                   extracted, policy_case, round_trip, price_list>>

\* The bash command ends with another status: the task instance waits for
\* a retry while it has retries left, and is failed when it has none.
TaskFails(t) ==
    /\ pipeline.state = "running"
    /\ pipeline.task[t] = "running"
    /\ pipeline' = [pipeline EXCEPT
                       !.task[t] = IF pipeline.tries[t] <= Retries
                                   THEN "up_for_retry" ELSE "failed"]
    /\ UNCHANGED <<script, pc, exit, df, fvars, xvars, svars, document,
                   extracted, policy_case, round_trip, price_list>>

\* A task with a failed upstream task is set to upstream_failed unrun.
TaskAbandoned(t) ==
    /\ pipeline.state = "running"
    /\ pipeline.task[t] = "none"
    /\ \E u \in Upstream(t) : pipeline.task[u] \in {"failed", "upstream_failed"}
    /\ pipeline' = [pipeline EXCEPT !.task[t] = "upstream_failed"]
    /\ UNCHANGED <<script, pc, exit, df, fvars, xvars, svars, document,
                   extracted, policy_case, round_trip, price_list>>

\* Every task instance is finished: the run is marked.
DagRunEnds ==
    /\ pipeline.state = "running"
    /\ \A t \in 1..Len(TaskIds) :
          pipeline.task[t] \in {"success", "failed", "upstream_failed"}
    /\ pipeline' = [pipeline EXCEPT
                       !.state = IF \A t \in 1..Len(TaskIds) :
                                       pipeline.task[t] = "success"
                                 THEN "success" ELSE "failed"]
    /\ UNCHANGED <<script, pc, exit, df, fvars, xvars, svars, document,
                   extracted, policy_case, round_trip, price_list>>

-----------------------------------------------------------------------------
(* scrape_pricing_site.py: convert_abc_list_to_df on a list of elements    *)

ScrapePricingSite == "scrape_pricing_site.py"

\* Largest number of elements in the list.
MaxElements == 3

\* The keys of quarterly_pricing_list_column_names.
ColumnNames ==
    {"nc_code", "supplier", "brand_name", "age", "proof", "size",
     "retail_price", "mxb_price", "product_category", "item_details_url"}

\* The columns filled from quarterly_pricing_list_values[0] .. [7].
ValueColumns ==
    <<"nc_code", "supplier", "brand_name", "age", "proof", "size",
      "retail_price", "mxb_price">>

\* A child of the price-list div: a NavigableString, or a Tag with its h5
\* descendant if any, its class list, its text and its onclick attribute.
NavigableString == [isTag |-> FALSE]
TagElement(h5, class, text, onclick) ==
    [isTag |-> TRUE, h5 |-> h5, class |-> class, text |-> text,
     onclick |-> onclick]

\* The text of a product row: one value per line between two newlines.
RowText(values) ==
    <<"\n">> \o values[1] \o <<"\n">> \o values[2] \o <<"\n">> \o values[3]
        \o <<"\n">> \o values[4] \o <<"\n">> \o values[5] \o <<"\n">>
        \o values[6] \o <<"\n">> \o values[7] \o <<"\n">> \o values[8]
        \o <<"\n">>
ProductValues ==
    <<<<"00-015">>, <<"Acme">>, <<"Old Brand">>, <<"4Y">>, <<"80.0">>,
      <<".75L">>, <<"$24.95">>, <<"$25.50">>>>
OnclickOfItem == <<"window.location = '", "/Pricing/Item/", "15", "'">>

\* The elements a list can hold: a string between tags, two category
\* headings, the bold header row, a product row with its onclick, one
\* without the attribute, one with an empty attribute, one with onclick and
\* three lines of text only, and a tag of another class.
Elements ==
    {NavigableString,
     TagElement(Present(<<"Bourbon">>), <<"row">>, <<"Bourbon">>, Absent),
     TagElement(Present(<<"Rum">>), <<"row">>, <<"Rum">>, Absent),
     TagElement(Absent, <<"row", "font-weight-bold">>, <<"NC Code">>, Absent),
     TagElement(Absent, <<"list-generic", "row">>, RowText(ProductValues),
                Present(OnclickOfItem)),
     TagElement(Absent, <<"list-generic", "row">>, RowText(ProductValues),
                Absent),
     TagElement(Absent, <<"list-generic", "row">>, RowText(ProductValues),
                Present(<<>>)),
     TagElement(Absent, <<"list-generic", "row">>,
                <<"\n", "00-016", "\n", "Acme", "\n", "Short", "\n">>,
                Present(OnclickOfItem)),
     TagElement(Absent, <<"row">>, <<"footer">>, Absent)}

\* quarterly_pricing_list_values: text.split("\n")[1 : len - 1]
PricingValues(el) ==
    LET parts == Split(el.text, "\n") IN SubSeq(parts, 2, Len(parts) - 1)

\* onclick_attr.replace("window.location = '", "").replace("'", "")
OnclickText(el) ==
    SelectSeq(el.onclick.text,
              LAMBDA c : c # "window.location = '" /\ c # "'")

\* A variant that takes the presence of the attribute for the test.
OnclickGivenIfPresent(el) == el.onclick.present

\* `if onclick_attr:` is false for a missing and for an empty attribute.
OnclickGiven(el) == el.onclick.present /\ el.onclick.text # <<>>

\* The element is a product row the parser reads: a Tag without h5 whose
\* class list is exactly ["list-generic", "row"].
IsProductRow(el) ==
    el.isTag /\ ~el.h5.present /\ el.class = <<"list-generic", "row">>

\* A variant that keeps the first heading seen.
CategoryAfterFirstOnly(category, el) ==
    IF el.isTag /\ el.h5.present /\ category.isNull THEN Text(el.h5.text)
    ELSE category

\* product_category after the element: h5_element.text of a heading.
CategoryAfter(category, el) ==
    IF el.isTag /\ el.h5.present THEN Text(el.h5.text) ELSE category

\* The appends of lines 93-122 in their order; values[k] raises IndexError
\* for a k past the end and the appends made before it stay.
ColumnIndex(c) == CHOOSE k \in 1..Len(ValueColumns) : ValueColumns[k] = c
AppendRaises(values) == Len(values) < Len(ValueColumns)
AppendRow(columns, values, category, url) ==
    [c \in ColumnNames |->
        IF c = "product_category"
        THEN IF AppendRaises(values) THEN columns[c]
             ELSE Append(columns[c], category)
        ELSE IF c = "item_details_url"
        THEN IF AppendRaises(values) THEN columns[c]
             ELSE Append(columns[c], url)
        ELSE IF ColumnIndex(c) <= Len(values)
        THEN Append(columns[c], values[ColumnIndex(c)])
        ELSE columns[c]]

InitPriceList ==
    /\ script = ScrapePricingSite
    /\ df = <<>>
    /\ pc = "convert_abc_list_to_df"
    /\ ProcessStarts
    /\ table = <<>>
    /\ final_product_list = <<>>
    /\ blob = NoBlob
    /\ item_details = <<>>
    /\ document = NoDocument
    /\ extracted = NotExtracted
    /\ policy_case = NoPolicyCase
    /\ round_trip = NoRoundTrip
    /\ pipeline = NoPipeline
    /\ \E n \in 0..MaxElements : \E abc_list \in [1..n -> Elements] :
          price_list = [state |-> "looping", abc_list |-> abc_list, pos |-> 1,
                        product_category |-> Null,
                        columns |-> [c \in ColumnNames |-> <<>>]]

\* One iteration of `for tag_element in abc_list`.
LoopIteration ==
    /\ price_list.state = "looping"
    /\ price_list.pos <= Len(price_list.abc_list)
    /\ LET el == price_list.abc_list[price_list.pos]
           reads == IsProductRow(el) /\ OnclickGiven(el)
       IN price_list' =
            [price_list EXCEPT
                !.pos = price_list.pos + 1,
                !.product_category = CategoryAfter(price_list.product_category, el),
                !.columns = IF reads
                            THEN AppendRow(price_list.columns, PricingValues(el),
                                           price_list.product_category,
                                           BaseUrl \o OnclickText(el))
                            ELSE price_list.columns,
                !.state = IF reads /\ AppendRaises(PricingValues(el))
                          THEN "raised" ELSE "looping"]
    /\ UNCHANGED <<script, pc, exit, df, fvars, xvars, svars, document,
                   extracted, policy_case, round_trip, pipeline>>

\* The list is exhausted: the DataFrame is made from the dictionary.
DataFrameReturned ==
    /\ price_list.state = "looping"
    /\ price_list.pos > Len(price_list.abc_list)
    /\ price_list' = [price_list EXCEPT !.state = "returned"]
    /\ UNCHANGED <<script, pc, exit, df, fvars, xvars, svars, document,
                   extracted, policy_case, round_trip, pipeline>>

-----------------------------------------------------------------------------
(* Specifications                                                          *)

\* One run of replace_x_image_urls.py.
NextX ==
    \/ LoopBodyStarts
    \/ \E i \in 1..MaxRecords : FetchSucceeds(i)
    \/ \E i \in 1..MaxRecords : FetchFails(i)
    \/ ProcessUrlsReturns
    \/ PassCollects
    \/ SentinelCheck
    \/ BeginUpdate
    \/ UpdateStep
    \/ UpdateRaises
    \/ UpdatesDone
    \/ LoopExits
    \/ EtlRuns
    \/ EtlRaises

InitX == Init /\ script = ReplaceXImageUrls

SpecX == InitX /\ [][NextX]_vars

\* The interpreter runs the program: a step that can be taken is taken.
FairSpecX == SpecX /\ WF_vars(NextX)

\* One run of any of the three scripts.
Next ==
    \/ NextX
    \/ MainCallsProcessUrls
    \/ \E i \in 1..MaxRecords : FetchRetried(i)
    \/ UploadCsv
    \/ LoadCsv
    \/ LoadRaises

Spec == Init /\ [][Next]_vars

\* One call of the extractor on any document.
NextExtract == ExtractDocument

SpecExtract == InitExtract /\ [][NextExtract]_vars

\* One attempt under the retry decorator of any of the three scripts.
NextPolicy == DecideAttempt

SpecPolicy == InitPolicy /\ [][NextPolicy]_vars

\* One locator of the image search from the list to the DataFrame.
NextRoundTrip ==
    \/ TaskBuilt
    \/ SearchReturns
    \/ ColumnsBuilt

SpecRoundTrip == InitRoundTrip /\ [][NextRoundTrip]_vars

\* One run of the DAG.
NextPipeline ==
    \/ \E t \in 1..Len(TaskIds) : TaskStarts(t)
    \/ \E t \in 1..Len(TaskIds) : TaskSucceeds(t)
    \/ \E t \in 1..Len(TaskIds) : TaskFails(t)
    \/ \E t \in 1..Len(TaskIds) : TaskAbandoned(t)
    \/ DagRunEnds

SpecPipeline == InitPipeline /\ [][NextPipeline]_vars

\* One call of convert_abc_list_to_df.
NextPriceList ==
    \/ LoopIteration
    \/ DataFrameReturned

SpecPriceList == InitPriceList /\ [][NextPriceList]_vars

-----------------------------------------------------------------------------
(* Properties                                                              *)

\* C1: whenever process_urls returns, its result list has one entry per
\* locator and entry i is the value computed from the answer to locator i,
\* whatever the order in which the fetches completed.
C1_ResultsInInputOrder ==
    pcall = "returned" =>
        /\ Len(results) = Len(urls)
        /\ \A i \in 1..Len(urls) :
              /\ served[i].url = urls[i]
              /\ results[i] = TaskResult(script, urls[i], served[i].answer)

\* C1 witness: a call returned after its second locator completed first, and
\* the two results differ.
C1_Witness ==
    /\ pcall = "returned"
    /\ Len(urls) >= 2
    /\ completed[1] = 2
    /\ results[1] # results[2]

\* C2 as claimed: a fetch that ended in a terminal failure leaves the batch
\* running, so that the other locators still deliver their results.
C2_FailureIsLocal ==
    \A i \in 1..Len(urls) :
        tstate[i] = "failed" => pcall # "raised" /\ exit = "running"

\* C2 as amended: a fetch that ends in a terminal failure aborts the batch:
\* process_urls delivers no result list, the process exits with status 1, and
\* a result list is delivered only when every fetch returned a value.
C2_FailureAbortsBatch ==
    /\ \A i \in 1..Len(urls) :
          tstate[i] = "failed" =>
              pcall = "raised" /\ results = <<>> /\ exit = "status1"
    /\ pcall = "returned" => \A i \in 1..Len(urls) : tstate[i] = "done"

\* C2 witness: the image search gave up on one locator after its last
\* attempt while another locator of the batch had already returned a value.
C2_Witness ==
    /\ script = ReplaceMissingUrls
    /\ \E i, j \in 1..Len(urls) :
          /\ tstate[i] = "failed"
          /\ attempts[i] = ImageSearchMaxAttempts
          /\ tstate[j] = "done"

\* Calls of replace_x_raw_image_urls in one run: one at the top of the loop
\* body, one more after the sentinel check.
MaxPasses == 2

\* C3: the convergence loop never runs more than two passes and always
\* leaves the Seeking state, whatever the fetches return.
C3_LoopTerminates ==
    /\ [](passes <= MaxPasses)
    /\ <>(LoopState # "Seeking")

\* C3 witness: the loop ended after two passes that both returned a sentinel.
C3_Witness ==
    /\ LoopState = "Resolved"
    /\ passes = MaxPasses
    /\ Len(pass_log) = 2
    /\ AnySentinel(pass_log[1].image_urls)
    /\ AnySentinel(pass_log[2].image_urls)

\* C4 as claimed: when the loop ends as Resolved, no UPDATE statement issued
\* in the run wrote an image value that contains the sentinel.
C4_ResolvedWithoutSentinel ==
    no_x_raw_image_urls =>
        \A k \in 1..Len(issued) : ~Contains(issued[k].image_url.text, Sentinel)

\* C5 as claimed: a stored image value is replaced only by a value that is
\* non-empty and does not contain the sentinel.
C5_OnlyResolvedValuesReplace ==
    \A r \in 1..Len(table) :
        \/ table[r].image_url = OldImageUrl
        \/ /\ table[r].image_url # <<>>
           /\ ~Contains(table[r].image_url, Sentinel)

\* C6 as claimed: the k-th UPDATE statement issued sets the k-th image value
\* on the row of the k-th catalog code.
C6_StatementPerRecord ==
    \A k \in 1..Len(issued) :
        issued[k] = [image_url |-> Filled(image_url_list[k]),
                     nc_code |-> Filled(nc_code_list[k])]

\* C7 as claimed: a code whose pass-1 value holds the sentinel and whose
\* pass-2 value is a valid url is stored with the pass-2 url once the loop is
\* Resolved, after exactly two passes.
C7_SentinelThenValid ==
    (no_x_raw_image_urls /\ Len(pass_log) >= 2) =>
        \A i \in 1..Len(pass_log[2].image_urls) :
            ( /\ Contains(pass_log[1].image_urls[i], Sentinel)
              /\ pass_log[2].image_urls[i] # <<>>
              /\ ~Contains(pass_log[2].image_urls[i], Sentinel)
              /\ pass_log[2].nc_codes[i] # <<>> )
            => /\ passes = 2
               /\ \A r \in 1..Len(table) :
                     table[r].nc_code = pass_log[2].nc_codes[i]
                         => table[r].image_url = pass_log[2].image_urls[i]

\* Every UPDATE statement the loop can build for the rows of df.
Statements ==
    {[image_url |-> Filled(v), nc_code |-> Filled(c)] :
        v \in {<<>>, BaseUrl \o SentinelSrc}
                \cup {BaseUrl \o GoodSrc(r) : r \in 1..Len(df)},
        c \in {<<>>} \cup {Code(r) : r \in 1..Len(df)}}

C10_AbortExitsNonZero == LoopState = "Aborted" => exit = "status1"

\* A per-record error of a scraper: the request raised, the status is not
\* 200, or the heading text does not hold ' Effective Date: '.
PerRecordError(answer) ==
    \/ answer.kind = "exception"
    \/ answer.kind = "response" /\ answer.status # 200
    \/ /\ answer.kind = "response"
       /\ answer.container
       /\ answer.heading.present
       /\ ~Contains(answer.heading.text, <<EffectiveDateDelimiter>>)

\* C11 as claimed: a per-record error of a scraper yields a record with
\* empty fields for that locator and leaves the batch and the process running.
C11_ErrorDegradesRecord ==
    script # ReplaceMissingUrls =>
        \A i \in 1..Len(urls) :
            PerRecordError(served[i].answer) =>
                /\ tstate[i] = "done"
                /\ tresult[i] = DefaultRecord
                /\ exit = "running"

\* C11 as amended: a per-record error of a scraper is never turned into a
\* record: the fetch ends as failed, the batch delivers no result list and
\* the process exits with status 1; every record that is returned comes
\* from an answer without such an error.
C11_ErrorEndsProcess ==
    script # ReplaceMissingUrls =>
        \A i \in 1..Len(urls) :
            /\ PerRecordError(served[i].answer) =>
                  /\ tstate[i] = "failed"
                  /\ tresult[i] = <<>>
                  /\ pcall = "raised"
                  /\ exit = "status1"
            /\ tstate[i] = "done" => ~PerRecordError(served[i].answer)

\* C11 witness: a scraper ended on a page whose heading lacks the delimiter
\* after another locator of the batch had returned its record.
C11_Witness ==
    /\ script = ScrapeItemDetails
    /\ \E i, j \in 1..Len(urls) :
          /\ tstate[i] = "failed"
          /\ served[i].answer.kind = "response"
          /\ served[i].answer.status = 200
          /\ served[i].answer.heading = Present(BareHeading)
          /\ tstate[j] = "done"
          /\ exit = "status1"

\* C12: a 200 document with no container block makes the scraper return a
\* record whose twelve fields are all empty; the fetch does not fail.
C12_NoContainerAllEmpty ==
    script # ReplaceMissingUrls =>
        \A i \in 1..Len(urls) :
            ( /\ served[i].answer.kind = "response"
              /\ served[i].answer.status = 200
              /\ ~served[i].answer.container )
            => /\ tstate[i] = "done"
               /\ DOMAIN tresult[i] = FieldNames
               /\ Cardinality(DOMAIN tresult[i]) = 12
               /\ \A f \in FieldNames : tresult[i][f] = <<>>

\* C12 witness: process_urls returned a batch of two records, the first from
\* a document with no container (which does show a heading, a row and an
\* image), the second with a code and an image.
C12_Witness ==
    /\ script = ScrapeItemDetails
    /\ pcall = "returned"
    /\ exit = "running"
    /\ Len(urls) = 2
    /\ ~served[1].answer.container
    /\ served[1].answer.img.present
    /\ results[1] = DefaultRecord
    /\ results[2].nc_code # <<>>
    /\ results[2].product_image_url # <<>>

\* The value the document gives for the NC Code label, when it gives one.
HasNcCode == document # NoDocument /\ HasLabel(ColumnValues(document.rows), <<"NC Code">>)
NcCodeValue == ValueOf(ColumnValues(document.rows), <<"NC Code">>)

\* C13 as claimed: an NC Code value shorter than two characters is returned
\* unchanged, with no separator.
C13_ShortCodeUnchanged ==
    ( /\ extracted.state = "returned"
      /\ document.container
      /\ HasNcCode
      /\ Len(NcCodeValue) < 2 )
    => extracted.record.nc_code = NcCodeValue

\* C13 as amended: an NC Code value shorter than two characters is returned
\* with the separator appended, so it is never returned unchanged.
C13_ShortCodeGetsSeparator ==
    ( /\ extracted.state = "returned"
      /\ document.container
      /\ HasNcCode
      /\ Len(NcCodeValue) < 2 )
    => /\ extracted.record.nc_code = NcCodeValue \o <<"-">>
       /\ extracted.record.nc_code # NcCodeValue

\* C13 witness: the one-character value "N" was returned as "N-".
C13_Witness ==
    /\ extracted.state = "returned"
    /\ HasNcCode
    /\ NcCodeValue = <<"N">>
    /\ extracted.record.nc_code = <<"N", "-">>

\* C14: when the document holds the NC Code label, the returned nc_code is
\* the value with "-" after its second character (after its last one when
\* it has fewer), every other character in place; without the label the
\* returned nc_code is empty.
C14_SeparatorAlwaysInserted ==
    (extracted.state = "returned" /\ document.container) =>
        LET out == extracted.record.nc_code IN
        IF HasNcCode
        THEN LET v == NcCodeValue
                 at == Min(2, Len(v)) + 1
             IN /\ Len(out) = Len(v) + 1
                /\ out[at] = "-"
                /\ \A k \in 1..Len(v) :
                      out[IF k < at THEN k ELSE k + 1] = v[k]
        ELSE out = <<>>

\* C14 witness: the six-character value "NC1234" was returned as "NC-1234".
C14_Witness ==
    /\ extracted.state = "returned"
    /\ document.container
    /\ HasNcCode
    /\ NcCodeValue = <<"N", "C", "1", "2", "3", "4">>
    /\ extracted.record.nc_code = <<"N", "C", "-", "1", "2", "3", "4">>

\* C15 as claimed: a scraper's fetch that ended on a status other than 200
\* was attempted as often as the decorator allows before it became terminal.
C15_Non200RetriedToBound ==
    script # ReplaceMissingUrls =>
        \A i \in 1..Len(urls) :
            ( /\ tstate[i] = "failed"
              /\ served[i].answer.kind = "response"
              /\ served[i].answer.status # 200 )
            => attempts[i] = ItemDetailMaxAttempts

\* C16 as claimed: after an attempt of the image search, RateLimited and
\* Unreachable are retried while attempts remain, and an answer with no
\* items is returned as a value without another attempt.
C16_NotFoundIsNotRetried ==
    (script = ReplaceMissingUrls /\ policy_case.state = "decided") =>
        /\ ( /\ policy_case.answer.kind \in {"RateLimited", "Unreachable"}
             /\ policy_case.attempt < ImageSearchMaxAttempts )
           => policy_case.decision = "retry"
        /\ policy_case.answer.kind = "NotFound"
           => policy_case.decision = "return"

\* C17 as claimed: after an attempt of the image search that failed for good
\* (a 4xx status) the error is let out at once, and only the transient
\* failures are retried.
C17_PermanentSurfacesAtOnce ==
    (script = ReplaceMissingUrls /\ policy_case.state = "decided") =>
        /\ policy_case.answer.kind = "BadRequest"
           => policy_case.decision = "raise"
        /\ policy_case.decision = "retry"
           => policy_case.answer.kind \in {"RateLimited", "Unreachable"}

\* C17 as amended: the image search retries every failure alike: whatever
\* the body raised, the decorator retries it while fewer than 30 attempts were
\* made and lets the error out only at the 30th attempt.
C17_EveryFailureRetried ==
    ( /\ script = ReplaceMissingUrls
      /\ policy_case.state = "decided"
      /\ policy_case.answer.kind # "items" )
    => policy_case.decision =
           IF policy_case.attempt < ImageSearchMaxAttempts THEN "retry"
           ELSE "raise"

\* C17 witness: the 29th attempt got a 4xx status and is retried.
C17_Witness ==
    /\ script = ReplaceMissingUrls
    /\ policy_case.state = "decided"
    /\ policy_case.answer.kind = "BadRequest"
    /\ policy_case.attempt = 29
    /\ policy_case.decision = "retry"

\* C18: the delay after attempt n is at least the delay after every earlier
\* attempt, lies between the policy's minimum and maximum (4 and 10 for the
\* scrapers, 4 and 15 for the image search), and from the attempt bound on
\* the decorator never retries.
C18_BackoffMonotoneAndClamped ==
    policy_case.state = "decided" =>
        /\ policy_case.delay >= WaitMin
        /\ policy_case.delay <= (IF script = ReplaceMissingUrls
                                 THEN ImageSearchWaitMax
                                 ELSE ItemDetailWaitMax)
        /\ \A m \in 1..policy_case.attempt :
              WaitExponential(script, m) <= policy_case.delay
        /\ policy_case.attempt >= MaxAttempts(script)
           => policy_case.decision # "retry"

\* C18 witness: the fourth attempt of the image search raised and the
\* decorator sleeps 8 seconds, more than the minimum and less than the
\* maximum, before it retries.
C18_Witness ==
    /\ script = ReplaceMissingUrls
    /\ policy_case.state = "decided"
    /\ policy_case.attempt = 4
    /\ policy_case.decision = "retry"
    /\ policy_case.delay = 8
    /\ WaitExponential(script, 3) = WaitMin
    /\ WaitExponential(script, 5) = ImageSearchWaitMax

\* C19: a locator of the image search is attempted at most 30 times and a
\* locator of a scraper at most 3 times in one process_urls call; a pending
\* locator always has an attempt left, and a step that counts an attempt
\* for one locator leaves the count of every other locator as it was.
C19_IndependentAttemptBounds ==
    /\ [](\A i \in 1..Len(urls) :
            /\ attempts[i] <= (IF script = ReplaceMissingUrls
                               THEN ImageSearchMaxAttempts
                               ELSE ItemDetailMaxAttempts)
            /\ tstate[i] = "pending" =>
                  attempts[i] < (IF script = ReplaceMissingUrls
                                 THEN ImageSearchMaxAttempts
                                 ELSE ItemDetailMaxAttempts))
    /\ [][DOMAIN attempts' = DOMAIN attempts =>
             \A i, j \in DOMAIN attempts :
                 (i # j /\ attempts'[i] # attempts[i]) =>
                     attempts'[j] = attempts[j]]_vars

\* C19 witness: the image search gave up on one locator at its 30th attempt
\* while another locator of the call, still pending, has 12 failed attempts.
C19_Witness ==
    /\ script = ReplaceMissingUrls
    /\ \E i, j \in 1..Len(urls) :
          /\ tstate[i] = "failed"
          /\ attempts[i] = ImageSearchMaxAttempts
          /\ tstate[j] = "pending"
          /\ attempts[j] = 12

\* C20 as claimed: once the upload of the CSV has failed, the load into the
\* warehouse table is not called.
C20_NoLoadAfterFailedUpload == upload = "failed" => loads = 0

\* An image value that needs no further pass: not empty, without sentinel.
ValidImage(v) == v # <<>> /\ ~Contains(v, Sentinel)

\* C21 as claimed: the second pass issues a fetch only for a record whose
\* image value after the first pass was not yet valid.
C21_SecondPassSkipsResolved ==
    (pc = "pass2" /\ Len(pass_log) >= 1) =>
        \A i \in 1..Len(urls) :
            \A k \in 1..Len(pass_log[1].urls) :
                (pass_log[1].urls[k] = urls[i] /\ tstate[i] # "pending")
                    => ~ValidImage(pass_log[1].image_urls[k])

\* C21 as amended: the second pass scrapes again every url the first pass
\* scraped, in the same order, whether its image value was valid or not,
\* and returns one value per url.
C21_SecondPassRefetchesAll ==
    /\ (pc = "pass2" /\ Len(pass_log) >= 1) => urls = pass_log[1].urls
    /\ Len(pass_log) >= 2 =>
          /\ pass_log[2].urls = pass_log[1].urls
          /\ Len(pass_log[2].image_urls) = Len(pass_log[1].image_urls)

\* C21 witness: two records were scraped in the first pass, the first came
\* back valid and the second with the sentinel, and the second pass has
\* scraped the first one again.
C21_Witness ==
    /\ pc = "pass2"
    /\ Len(pass_log) = 1
    /\ Len(urls) = 2
    /\ ValidImage(pass_log[1].image_urls[1])
    /\ Contains(pass_log[1].image_urls[2], Sentinel)
    /\ tstate[1] = "done"

\* C22 as claimed: when the values of the last pass still hold the sentinel,
\* the loop is not left as resolved and the run does not complete: the ETL
\* is not reached and the process does not end with status 0.
C22_UnresolvedEndsInError ==
    (AnySentinel(image_url_list) /\ pc \in {"etl", "done"}) =>
        /\ ~no_x_raw_image_urls
        /\ etl_runs = 0
        /\ exit # "status0"

C24_PassesSequential ==
    /\ [](pcall = "running" => Len(pass_log) = passes - 1)
    /\ [][passes' = passes + 1 =>
             /\ pcall # "running"
             /\ Len(pass_log) = passes
             /\ \A i \in 1..Len(urls) : tstate[i] = "done"]_vars

\* C24 witness: the second pass is fetching its second url after the first
\* pass returned two values.
C24_Witness ==
    /\ pc = "pass2"
    /\ pcall = "running"
    /\ passes = 2
    /\ Len(pass_log) = 1
    /\ Len(pass_log[1].image_urls) = 2
    /\ tstate = <<"done", "pending">>

\* C25: in the image search, while one fetch has failed attempts behind it
\* and is still pending, every other pending fetch of the batch can return
\* a value; a step that counts a failed attempt of one fetch changes nothing
\* of any other fetch; and the value a fetch returned is the one computed
\* from its own answer.
C25_RetriesDoNotBlockOthers ==
    /\ []((script = ReplaceMissingUrls /\ pcall = "running" /\ exit = "running") =>
            \A i, j \in 1..Len(urls) :
                ( /\ i # j
                  /\ tstate[i] = "pending"
                  /\ attempts[i] > 0
                  /\ tstate[j] = "pending" )
                => ENABLED FetchSucceeds(j))
    /\ [](script = ReplaceMissingUrls =>
            \A j \in 1..Len(urls) :
                tstate[j] = "done" =>
                    /\ served[j].answer.kind = "items"
                    /\ tresult[j] = Code(j) \o <<"~">> \o served[j].answer.link)
    /\ [][script = ReplaceMissingUrls =>
             \A i \in 1..Len(urls) :
                 ( /\ DOMAIN attempts' = DOMAIN attempts
                   /\ attempts'[i] > attempts[i]
                   /\ tstate'[i] = "pending" )
                 => \A j \in 1..Len(urls) :
                        j # i =>
                            /\ tstate'[j] = tstate[j]
                            /\ tresult'[j] = tresult[j]
                            /\ served'[j] = served[j]
                            /\ attempts'[j] = attempts[j]]_vars

\* C25 witness: the first fetch of the image search is pending after 29
\* failed attempts and the second fetch has returned its value.
C25_Witness ==
    /\ script = ReplaceMissingUrls
    /\ pcall = "running"
    /\ Len(urls) = 2
    /\ tstate = <<"pending", "done">>
    /\ attempts[1] = 29
    /\ tresult[2] # <<>>

\* The values a record scraped for the item page of row r can hold in its
\* nc_code and product_image_url fields.
CodesOfRow(r) == {<<>>, Code(r)}
ImagesOfRow(r) ==
    {<<>>, BaseUrl \o GoodSrc(r), BaseUrl \o SentinelSrc,
     BaseUrl \o UpperSentinelSrc}

\* C26: in a scraper, the record of a fetch that returned holds the values
\* of the document served for its own url and of no other; a step writes
\* the record of one fetch only, and a record once returned is not written
\* again while the call runs.
C26_RecordOwnedByOneFetch ==
    /\ [](script # ReplaceMissingUrls =>
            \A i \in 1..Len(urls) :
                tstate[i] = "done" =>
                    /\ served[i].url = urls[i]
                    /\ served[i].answer \in ItemResponses(urls[i])
                    /\ tresult[i].nc_code \in CodesOfRow(RowOfUrl(urls[i]))
                    /\ tresult[i].product_image_url \in ImagesOfRow(RowOfUrl(urls[i]))
                    /\ tresult[i].nc_code # <<>> => served[i].answer.rows # <<>>
                    /\ tresult[i].product_image_url # <<>> =>
                          tresult[i].product_image_url =
                              BaseUrl \o served[i].answer.img.text)
    /\ [][(script # ReplaceMissingUrls /\ pcall = "running") =>
             \A i \in 1..Len(urls) :
                 tresult'[i] # tresult[i] =>
                     /\ tstate[i] = "pending"
                     /\ tstate'[i] = "done"
                     /\ \A j \in 1..Len(urls) :
                           j # i => tresult'[j] = tresult[j]]_vars

\* C26 witness: under gather the second fetch returned before the first,
\* and the two records hold different codes and different images.
C26_Witness ==
    /\ script = ScrapeItemDetails
    /\ pcall = "running"
    /\ completed = <<2, 1>>
    /\ tresult[1].nc_code = Code(1)
    /\ tresult[2].nc_code = Code(2)
    /\ tresult[1].product_image_url = BaseUrl \o SentinelSrc
    /\ tresult[2].product_image_url = BaseUrl \o GoodSrc(2)

\* The nine labels of the allow-list and the field each of them sets.
AllowList ==
    {<<"NC Code", "nc_code">>, <<"Bottle Size", "bottle_size">>,
     <<"Proof", "proof">>, <<"Bottles per Case", "bottles_per_case">>,
     <<"UPC", "upc">>, <<"Retail Price", "retail_price">>,
     <<"Mixed Beverage Price", "mxb_price">>,
     <<"Case Cost Less Bailment", "case_cost_less_bailment">>,
     <<"Distiller", "distiller">>}

\* C27: each of the nine labels, spelled exactly, sets its field to the
\* value given last for it (NC Code with the separator inserted, the others
\* verbatim); a field whose label the document does not give stays empty,
\* whatever other labels or other spellings the document holds, and the
\* three remaining fields do not depend on the rows.
C27_CaseSensitiveAllowList ==
    (extracted.state = "returned" /\ document.container) =>
        LET values == ColumnValues(document.rows)
            rec == extracted.record
        IN /\ Cardinality(AllowList) = 9
           /\ \A p \in AllowList :
                 LET hits == {k \in 1..Len(values) : values[k].desc = <<p[1]>>} IN
                 IF hits = {} THEN rec[p[2]] = <<>>
                 ELSE LET v == values[CHOOSE k \in hits : \A j \in hits : j <= k].value
                      IN rec[p[2]] = IF p[2] = "nc_code"
                                     THEN Take(v, 2) \o <<"-">> \o Drop(v, 2)
                                     ELSE v
           /\ rec.brand_name = IF document.heading.present THEN <<"Brand">> ELSE <<>>
           /\ rec.effective_date =
                 IF document.heading.present THEN <<"2025-01-01">> ELSE <<>>
           /\ rec.product_image_url =
                 IF document.img.present THEN BaseUrl \o document.img.text ELSE <<>>

\* C27 witness: a document gives PROOF 90 and then Vintage 1999 and no other
\* row: every field of the record is empty.
C27_Witness ==
    /\ extracted.state = "returned"
    /\ document.container
    /\ ~document.heading.present
    /\ ~document.img.present
    /\ document.rows = <<LabelRow("PROOF", <<"90">>), LabelRow("Vintage", <<"1999">>)>>
    /\ \A f \in FieldNames : extracted.record[f] = <<>>

\* C28: every record the extractor returns has the same twelve fields, each
\* a string; without container every field is empty, without heading the
\* brand name and the effective date are, without image the image url is,
\* and without rows the nine remaining fields are.
C28_TwelveStringFields ==
    extracted.state = "returned" =>
        LET rec == extracted.record IN
        /\ DOMAIN rec = FieldNames
        /\ Cardinality(DOMAIN rec) = 12
        /\ \A f \in FieldNames : rec[f] \in Seq(STRING)
        /\ ~document.container => \A f \in FieldNames : rec[f] = <<>>
        /\ ~document.heading.present =>
              rec.brand_name = <<>> /\ rec.effective_date = <<>>
        /\ ~document.img.present => rec.product_image_url = <<>>
        /\ document.rows = <<>> =>
              \A f \in FieldNames \ {"brand_name", "effective_date",
                                      "product_image_url"} : rec[f] = <<>>

\* C28 witness: a document with the container but no heading, no row and no
\* image gave a record of twelve empty fields, and so did one with rows,
\* heading and image but no container.
C28_Witness ==
    /\ extracted.state = "returned"
    /\ document.container
    /\ ~document.heading.present
    /\ document.rows = <<>>
    /\ ~document.img.present
    /\ DOMAIN extracted.record = FieldNames
    /\ \A f \in FieldNames : extracted.record[f] = <<>>

\* C29 as stated: every attempt, successful or failed, writes a log line that
\* carries both the catalog code and the url or query attempted.
C29_EveryAttemptLogsCodeAndLocator ==
    policy_case.state = "decided" =>
        \E k \in 1..Len(policy_case.log) :
            /\ Contains(policy_case.log[k].text, Code(1))
            /\ Contains(policy_case.log[k].text,
                         IF script = ReplaceMissingUrls THEN SearchQuery(1)
                         ELSE ItemUrl(1))

\* C29: every attempt, successful or failed, writes at least one log line,
\* and every line it writes carries the url or query attempted; the lines
\* of the image search carry the catalog code as well, the lines of the two
\* scrapers carry the url alone.
C29_EveryAttemptLogsLocator ==
    policy_case.state = "decided" =>
        /\ Len(policy_case.log) >= 1
        /\ \A k \in 1..Len(policy_case.log) :
              IF script = ReplaceMissingUrls
              THEN /\ Contains(policy_case.log[k].text, SearchQuery(1))
                   /\ Contains(policy_case.log[k].text, Code(1))
              ELSE /\ Contains(policy_case.log[k].text, ItemUrl(1))
                   /\ ~Contains(policy_case.log[k].text, Code(1))

\* C29 witness: a scraper attempt whose request raised wrote one line, the
\* error line naming the url.
C29_Witness ==
    /\ policy_case.state = "decided"
    /\ script = ScrapeItemDetails
    /\ policy_case.answer.kind = "exception"
    /\ Len(policy_case.log) = 1
    /\ policy_case.log[1].level = "error"
    /\ Contains(policy_case.log[1].text, ItemUrl(1))

\* C30 as stated: the code used in the i-th update is the code of the i-th
\* requested (nc_code, item_details_url) pair, also when the page fetched has
\* no container or no NC Code row.
C30_UpdateUsesRequestedCode ==
    (script = ReplaceXImageUrls /\ pc \in {"begin_update", "update"}) =>
        nc_code_list = ValidNcCodes(df)

\* C31 as stated: an image value the selection query treats as a placeholder
\* is detected by the loop's check, so a first pass that returned such a
\* value is always followed by a second pass.
C31_SelectedValueTriggersPass ==
    (script = ReplaceXImageUrls /\ pc \in {"begin_update", "update"}
        /\ Len(pass_log) = 1) =>
        \A k \in 1..Len(image_url_list) :
            ~SelectedAsPlaceholder(image_url_list[k])

\* C32: a run makes at most two resolution passes; a second pass has been
\* made exactly when the first one returned a value holding "x-raw-image:";
\* after the second pass control goes on to the update without a test of
\* its values; and control is back at the while test only with the flag
\* set, so that the body is not entered again.
C32_AtMostTwoPasses ==
    /\ [](script = ReplaceXImageUrls =>
            /\ passes <= 2 /\ Len(pass_log) <= 2
            /\ Len(pass_log) = 2 =>
                  \E k \in 1..Len(pass_log[1].image_urls) :
                      Contains(pass_log[1].image_urls[k], <<"x-raw-image", ":">>)
            /\ pc = "pass2" =>
                  \E k \in 1..Len(pass_log[1].image_urls) :
                      Contains(pass_log[1].image_urls[k], <<"x-raw-image", ":">>)
            /\ (Len(pass_log) = 1 /\ pc \in {"begin_update", "update", "while",
                                              "etl", "done"}) =>
                  \A k \in 1..Len(pass_log[1].image_urls) :
                      ~Contains(pass_log[1].image_urls[k], <<"x-raw-image", ":">>)
            /\ (pc = "while" /\ passes > 0) => no_x_raw_image_urls)
    /\ [][script = ReplaceXImageUrls =>
            /\ (pc = "pass2" /\ pc' # "pass2") => pc' = "begin_update"
            /\ pc' = "pass1" => (pc = "while" /\ passes = 0) \/ pc = "pass1"
            /\ pc' = "check" => pc \in {"while", "pass1", "check"}]_vars

\* C32 witness: the first pass returned two values, one of them holding the
\* sentinel; the second pass returned a sentinel again, and the update has
\* begun.
C32_Witness ==
    /\ script = ReplaceXImageUrls
    /\ pc = "update"
    /\ passes = 2
    /\ Len(pass_log) = 2
    /\ Len(pass_log[1].image_urls) = 2
    /\ ~Contains(pass_log[1].image_urls[1], Sentinel)
    /\ Contains(pass_log[1].image_urls[2], Sentinel)
    /\ Contains(pass_log[2].image_urls[1], Sentinel)

\* The places of a document where a pair with the label stands: row k of
\* two or four segments, pair j of that row.
PairPlaces(rows, label) ==
    {c \in (1..Len(rows)) \X {1, 2} :
        LET seg == RowSegments(rows[c[1]]) IN
        /\ Len(seg) \in {2, 4}
        /\ 2 * c[2] <= Len(seg)
        /\ RemoveColons(seg[2 * c[2] - 1]) = <<label>>}

\* C33: a row of exactly four non-empty lines gives two label/value pairs, a
\* row of exactly two gives one, a row of any other number gives none; of
\* the pairs that carry a label the last one in document order sets the
\* field, and a label with no pair leaves its field empty.
C33_RowsParsedBySegmentCount ==
    (extracted.state = "returned" /\ document.container) =>
        \A p \in AllowList :
            LET places == PairPlaces(document.rows, p[1]) IN
            IF places = {} THEN extracted.record[p[2]] = <<>>
            ELSE LET last == CHOOSE c \in places : \A d \in places :
                                 \/ d[1] < c[1]
                                 \/ d[1] = c[1] /\ d[2] <= c[2]
                     v == RowSegments(document.rows[last[1]])[2 * last[2]]
                 IN extracted.record[p[2]] =
                        IF p[2] = "nc_code" THEN Take(v, 2) \o <<"-">> \o Drop(v, 2)
                        ELSE v

\* C33 witness: a row of four lines gave Retail Price $8.95, the next row
\* names Retail Price on three lines and changed nothing; the four-line row
\* set Case Cost Less Bailment as well.
C33_Witness ==
    /\ extracted.state = "returned"
    /\ document.container
    /\ document.rows =
          <<LabelRow("Case Cost Less Bailment", <<"$100">>) \o <<"\n">>
                \o LabelRow("Retail Price", <<"$8.95">>),
            LabelRow("Retail Price", <<"$9.95">>) \o <<"\n", "each">>>>
    /\ extracted.record.retail_price = <<"$8.95">>
    /\ extracted.record.case_cost_less_bailment = <<"$100">>

\* C34: the image field of a returned record is "https://abc2.nc.gov"
\* followed by the src of the image when the document has the container and
\* an image with a src, be the src empty, and is empty otherwise, also when
\* the image is there and the container is not.
C34_ImageFieldIsOriginPlusSrc ==
    extracted.state = "returned" =>
        extracted.record.product_image_url =
            IF document.container /\ document.img.present
            THEN <<"https://abc2.nc.gov">> \o document.img.text
            ELSE <<>>

\* C34 witness: a document with heading, a row and an image but without the
\* container gave an empty image field.
C34_Witness ==
    /\ extracted.state = "returned"
    /\ ~document.container
    /\ document.heading.present
    /\ Len(document.rows) = 1
    /\ document.img = Present(GoodSrc(1))
    /\ extracted.record.product_image_url = <<>>

\* C35 as stated: the pair written to the backfill table is the code of the
\* locator and the link the search returned, and the query sent is the whole
\* text after the code, also when the link or the query holds a "~".
C35_EncodingRoundTrips ==
    round_trip.state = "written" =>
        /\ round_trip.rows = <<[nc_code |-> round_trip.nc_code,
                                image_url |-> round_trip.link]>>
        /\ round_trip.sent = [nc_code |-> round_trip.nc_code,
                              query |-> round_trip.query]

\* A task instance that has been started at least once.
Started(t) == pipeline.tries[t] > 0

\* C36: in a run of the DAG the tasks run in the order scrape_pricing_data,
\* scrape_item_details, replace_missing_images, replace_x_images: a task has
\* been started only if the task before it has succeeded, at most one task
\* is running at a time, a task is started at most four times (three
\* retries), it is failed only after the fourth, and the tasks after a
\* failed one are never started.
C36_TasksRunInOrder ==
    /\ [](pipeline.state # "idle" =>
            /\ TaskIds = <<"scrape_pricing_data", "scrape_item_details",
                           "replace_missing_images", "replace_x_images">>
            /\ \A t \in 2..4 : Started(t) => pipeline.task[t - 1] = "success"
            /\ Cardinality({t \in 1..4 : pipeline.task[t] = "running"}) <= 1
            /\ \A t \in 1..4 :
                  /\ pipeline.tries[t] <= 1 + 3
                  /\ pipeline.task[t] = "failed" =>
                        /\ pipeline.tries[t] = 1 + 3
                        /\ \A u \in (t + 1)..4 :
                              /\ ~Started(u)
                              /\ pipeline.task[u] \in {"none", "upstream_failed"})
    /\ [][pipeline.state # "idle" =>
            \A t \in 1..4 :
                (pipeline.task[t] # "running" /\ pipeline'.task[t] = "running")
                    => \A u \in 1..(t - 1) : pipeline.task[u] = "success"]_vars

\* C36 witness: the first task succeeded at its first start, the second was
\* started four times and failed, and the last two were abandoned unrun.
C36_Witness ==
    /\ pipeline.state = "failed"
    /\ pipeline.task = <<"success", "failed", "upstream_failed", "upstream_failed">>
    /\ pipeline.tries = <<1, 4, 0, 0>>

\* The elements already processed, and those of them that are product rows
\* (no h5, class list-generic row).
Processed == 1..(price_list.pos - 1)
ProductRowsProcessed ==
    {k \in Processed : IsProductRow(price_list.abc_list[k])}

\* C37 as stated: while the parser runs and when it has returned, each of
\* the ten lists is as long as the number of product rows processed that
\* carry an onclick attribute.
C37_ColumnsCountOnclickRows ==
    price_list.state \in {"looping", "returned"} =>
        \A c \in ColumnNames :
            Len(price_list.columns[c]) =
                Cardinality({k \in ProductRowsProcessed :
                                price_list.abc_list[k].onclick.present})

\* C37 as amended: while the parser runs and when it has returned, the ten
\* lists are equally long, as long as the number of product rows processed
\* whose onclick attribute is not empty; an element that is not such a row
\* (a string, a heading, the bold header row, a row with no or an empty
\* onclick, another tag) leaves every list as it is; the parser raises only
\* on a row with onclick and fewer than eight values, and returns nothing
\* then.
C37_ColumnsCountNonEmptyOnclickRows ==
    /\ [](price_list.state \in {"looping", "returned"} =>
            /\ DOMAIN price_list.columns = ColumnNames
            /\ Cardinality(ColumnNames) = 10
            /\ \A c \in ColumnNames :
                  Len(price_list.columns[c]) =
                      Cardinality({k \in ProductRowsProcessed :
                          /\ price_list.abc_list[k].onclick.present
                          /\ price_list.abc_list[k].onclick.text # <<>>}))
    /\ [](price_list.state = "raised" =>
            LET el == price_list.abc_list[price_list.pos - 1] IN
            /\ IsProductRow(el)
            /\ el.onclick.present /\ el.onclick.text # <<>>
            /\ Len(PricingValues(el)) < 8)
    /\ [][price_list.state = "looping" /\ price_list'.pos = price_list.pos + 1 =>
            LET el == price_list.abc_list[price_list.pos] IN
            (~IsProductRow(el) \/ ~el.onclick.present \/ el.onclick.text = <<>>)
                => price_list'.columns = price_list.columns]_vars
    /\ [][price_list.state = "raised" => price_list'.state = "raised"]_vars

\* C37 witness: a product row with onclick, a product row with an empty
\* onclick and the bold header row were processed; the DataFrame returned
\* has one row.
C37_Witness ==
    /\ price_list.state = "returned"
    /\ Len(price_list.abc_list) = 3
    /\ IsProductRow(price_list.abc_list[1])
    /\ price_list.abc_list[1].onclick = Present(OnclickOfItem)
    /\ IsProductRow(price_list.abc_list[2])
    /\ price_list.abc_list[2].onclick = Present(<<>>)
    /\ price_list.abc_list[3].isTag
    /\ price_list.abc_list[3].class = <<"row", "font-weight-bold">>
    /\ \A c \in ColumnNames : Len(price_list.columns[c]) = 1
    /\ price_list.columns.item_details_url =
          <<<<"https://abc2.nc.gov", "/Pricing/Item/", "15">>>>

\* The headings processed, and the rows processed that were appended, in
\* the order of the list.
HeadingsProcessed ==
    {k \in Processed : /\ price_list.abc_list[k].isTag
                       /\ price_list.abc_list[k].h5.present}
RowsAppended ==
    {k \in ProductRowsProcessed :
        /\ price_list.abc_list[k].onclick.present
        /\ price_list.abc_list[k].onclick.text # <<>>}

\* C38: the j-th row of the product_category list holds the text of the
\* last heading that stands before the j-th appended row in the list, and
\* None when no heading stands before it.
C38_CategoryOfLastHeading ==
    price_list.state \in {"looping", "returned"} =>
        \A k \in RowsAppended :
            LET j == Cardinality({i \in RowsAppended : i <= k})
                before == {h \in HeadingsProcessed : h < k}
            IN /\ j <= Len(price_list.columns.product_category)
               /\ price_list.columns.product_category[j] =
                     IF before = {} THEN Null
                     ELSE Text(price_list.abc_list[
                              CHOOSE h \in before : \A g \in before : g <= h
                          ].h5.text)

\* C38 witness: a product row, the heading Bourbon and a second product row
\* were processed: the first row has no category, the second has Bourbon.
C38_Witness ==
    /\ price_list.state = "returned"
    /\ Len(price_list.abc_list) = 3
    /\ IsProductRow(price_list.abc_list[1])
    /\ price_list.abc_list[2].isTag
    /\ price_list.abc_list[2].h5 = Present(<<"Bourbon">>)
    /\ IsProductRow(price_list.abc_list[3])
    /\ price_list.columns.product_category = <<Null, Text(<<"Bourbon">>)>>

====
